---- MODULE Spec2Model ----
(***************************************************************************)
(* State-machine model of polymarket-nonce-guard.                          *)
(*                                                                         *)
(*   Part I   manipulation_detector.py : the poll loop (run), the book     *)
(*            snapshot history, the five detectors and the cooldown gate.  *)
(*   Part II  signal.py : AlertBus (emit, subscribe, unsubscribe, the      *)
(*            socket accept thread).                                       *)
(*   Part III nonce_monitor.py : log_event and NonceStats.                 *)
(*   Part IV  blacklist_watchdog.py : the block loop (run), write_alert    *)
(*            and emergency_sell; counterparty_checker.py.                 *)
(*                                                                         *)
(* Units.  Prices are in cents (0.10 $ = 10), mid prices are carried       *)
(* doubled (mid2 = 2 * mid, so the average of two cent quotes is exact),   *)
(* volumes are in shares, the reference (BTC) price in dollars, time in    *)
(* seconds.  Every float comparison of the source is restated as the       *)
(* integer comparison of the exact quantities; the rewriting is given at   *)
(* each place.  Rounding of binary floats at a threshold is not modelled.  *)
(***************************************************************************)
EXTENDS Integers, Sequences, FiniteSets, TLC

(***************************************************************************)
(* Program constants (manipulation_detector.py:33-47), in model units.     *)
(***************************************************************************)
POLL_INTERVAL == 2
ALERT_COOLDOWN == 15
HISTORY_SIZE == 60
\* 0.10 $ in cents
PRICE_JUMP_THRESHOLD == 10
\* 0.05 %, carried as hundredths of a percent
BTC_MOVE_THRESHOLD_PCT == 5
\* 0.40 as a percentage
DEPTH_DROP_PCT == 40
DEPTH_DROP_WINDOW == 3
\* 0.15 $ in cents
DIVERGENCE_THRESHOLD == 15
VOLUME_VANISH_THRESHOLD == 50
\* 5.0 USDC in cents
COUNTER_TRADE_SIZE == 500
\* 0.08 $ in cents
COUNTER_TRADE_EDGE == 8
\* seconds run() waits for the first reference price (line 423)
STARTUP_TRIES == 30

(***************************************************************************)
(* Bounds of the model.                                                    *)
(***************************************************************************)
\* polls of the order book in the detector runs
MaxTicks == 4
\* failed fetches (window or book) in a run
MaxFails == 1
\* appends beyond HISTORY_SIZE in the history runs (the k of "N+k appends")
MaxExtra == 3
\* the clock of the detector runs stops here
MaxTime == 48
\* a process may start with the clock at 0 or at StartClock
StartClock == 20
\* longest time between the capture of a snapshot and the gate's clock read
MaxLatency == 1
\* longest oversleep of the poll loop beyond POLL_INTERVAL
MaxDelay == 12
\* length of a market window in the detector runs
WindowLen == 40

None == "None"
\* Python's None where a price is expected
NoPrice == -1

Abs(x) == IF x < 0 THEN -x ELSE x
Min(a, b) == IF a < b THEN a ELSE b

(***************************************************************************)
(* Part I.  manipulation_detector.py                                       *)
(***************************************************************************)
VARIABLES
    env,              \* what the outside world may deliver in this run
    clock,            \* time.time()
    pc,               \* position of run()'s while loop
    window,           \* run's `window` / detector.window
    start_price,      \* detector.start_price
    history,          \* detector.history, a deque(maxlen=HISTORY_SIZE)
    last_alert_time,  \* detector.last_alert_time
    alerts,           \* detector.alerts
    alert_count,      \* detector.alert_count
    trade_count,      \* detector.trade_count
    alert_log,        \* the lines of ALERT_LOG
    orders,           \* calls of client.place_limit_buy made so far
    polls,            \* snapshots fetched so far (bounded by env.maxTicks)
    fails,            \* fetches that failed so far (bounded by env.maxFails)
    appended,         \* every snapshot appended since the last clear()
    cancel_requested, \* main's shutdown handler has called task.cancel()
    feed_running      \* feed.start() is running and feed.stop() was not called

detVars == <<env, clock, pc, window, start_price, history, last_alert_time,
             alerts, alert_count, trade_count, alert_log, orders, polls, fails,
             appended, cancel_requested, feed_running>>

\* ---- BookSnapshot ------------------------------------------------------
Book(bu, au, bd, ad, dub, dua, ddb, dda, btc) ==
    [bid_up |-> bu, ask_up |-> au, bid_down |-> bd, ask_down |-> ad,
     depth_up_bids |-> dub, depth_up_asks |-> dua,
     depth_down_bids |-> ddb, depth_down_asks |-> dda, btc_price |-> btc]

\* `win` is the slug of the window whose token ids the book was fetched for
BookSnapshot(ts, win, b) ==
    [ts |-> ts, win |-> win,
     bid_up |-> b.bid_up, ask_up |-> b.ask_up,
     bid_down |-> b.bid_down, ask_down |-> b.ask_down,
     depth_up_bids |-> b.depth_up_bids, depth_up_asks |-> b.depth_up_asks,
     depth_down_bids |-> b.depth_down_bids, depth_down_asks |-> b.depth_down_asks,
     btc_price |-> b.btc_price]

\* 2 * mid: (bid + ask) / 2 when both quotes are present, else `bid or ask or 0`
Mid2(bid, ask) ==
    IF bid # 0 /\ ask # 0 THEN bid + ask
    ELSE IF bid # 0 THEN 2 * bid ELSE 2 * ask

mid_up2(s) == Mid2(s.bid_up, s.ask_up)
mid_down2(s) == Mid2(s.bid_down, s.ask_down)

total_depth(s) ==
    s.depth_up_bids + s.depth_up_asks + s.depth_down_bids + s.depth_down_asks

Alert(ts, alert_type, severity) ==
    [ts |-> ts, alert_type |-> alert_type, severity |-> severity]

AlertTypes ==
    {"PRICE_JUMP_UP", "PRICE_JUMP_DOWN", "DEPTH_DROP",
     "VOLUME_VANISH_UP_BIDS", "VOLUME_VANISH_UP_ASKS",
     "VOLUME_VANISH_DOWN_BIDS", "VOLUME_VANISH_DOWN_ASKS",
     "DIVERGENCE_UP_CHEAP", "DIVERGENCE_DOWN_CHEAP",
     "SPREAD_BLOWOUT_UP", "SPREAD_BLOWOUT_DOWN"}

\* ---- dict ----------------------------------------------------------------
EmptyDict == [k \in {} |-> 0]
DictGet(d, k, dflt) == IF k \in DOMAIN d THEN d[k] ELSE dflt
DictPut(d, k, v) == [x \in (DOMAIN d) \cup {k} |-> IF x = k THEN v ELSE d[x]]

\* ---- deque(maxlen) -------------------------------------------------------
\* a bounded buffer that refuses the new item when it is full
DequeAppendDropsNewest(q, x, maxlen) ==
    IF Len(q) >= maxlen THEN q ELSE Append(q, x)

\* a deque that takes the new element at its left end
DequeAppendLeft(q, x, maxlen) ==
    IF Len(q) < maxlen THEN <<x>> \o q ELSE <<x>> \o SubSeq(q, 1, Len(q) - 1)

\* deque.append on a full deque discards the item at the other (oldest) end
DequeAppend(q, x, maxlen) ==
    IF Len(q) >= maxlen THEN Append(Tail(q), x) ELSE Append(q, x)

\* Python's negative index: q[-k]
FromEnd(q, k) == q[Len(q) - k + 1]

\* ---- the five detectors: each yields its candidates, in the order fired ----
Severity3(v, crit, high) ==
    IF v >= crit THEN "CRITICAL" ELSE IF v >= high THEN "HIGH" ELSE "MEDIUM"

\* btc_pct < BTC_MOVE_THRESHOLD_PCT, with
\* btc_pct = abs(snap.btc - prev.btc) / prev.btc * 100 if prev.btc else 0
\* (|d| / p * 100 < 0.05  <=>  |d| * 10000 < 5 * p   for p > 0)
BtcBarelyMoved(snap, prev) ==
    IF prev.btc_price # 0
    THEN Abs(snap.btc_price - prev.btc_price) * 10000 < BTC_MOVE_THRESHOLD_PCT * prev.btc_price
    ELSE 0 < BTC_MOVE_THRESHOLD_PCT

\* one iteration of the loop of _check_price_jump; delta is carried doubled
PriceJumpFires(snap, prev, mid_now2, mid_prev2) ==
    /\ mid_now2 # 0
    /\ mid_prev2 # 0
    /\ Abs(mid_now2 - mid_prev2) >= 2 * PRICE_JUMP_THRESHOLD
    /\ BtcBarelyMoved(snap, prev)

PriceJumpOne(snap, prev, alert_type, mid_now2, mid_prev2) ==
    IF PriceJumpFires(snap, prev, mid_now2, mid_prev2)
    THEN << Alert(snap.ts, alert_type, Severity3(Abs(mid_now2 - mid_prev2), 40, 30)) >>
    ELSE << >>

check_price_jump(snap, prev) ==
    PriceJumpOne(snap, prev, "PRICE_JUMP_UP", mid_up2(snap), mid_up2(prev))
    \o PriceJumpOne(snap, prev, "PRICE_JUMP_DOWN", mid_down2(snap), mid_down2(prev))

\* drop_pct = (ref - now) / ref, compared as a percentage: drop_pct >= p/100
\* <=> (ref - now) * 100 >= p * ref   (ref >= 1)
DropAtLeast(ref, now, p) == (ref - now) * 100 >= p * ref

\* a depth-drop detector that takes the oldest snapshot as its reference
check_depth_drop_oldest(snap, hist) ==
    IF Len(hist) < DEPTH_DROP_WINDOW THEN << >>
    ELSE LET ref == total_depth(hist[1])
             now == total_depth(snap)
         IN IF ref < 1 THEN << >>
            ELSE IF DropAtLeast(ref, now, DEPTH_DROP_PCT)
            THEN << Alert(snap.ts, "DEPTH_DROP",
                          IF DropAtLeast(ref, now, 70) THEN "CRITICAL"
                          ELSE IF DropAtLeast(ref, now, 55) THEN "HIGH" ELSE "MEDIUM") >>
            ELSE << >>

check_depth_drop(snap, hist) ==
    IF Len(hist) < DEPTH_DROP_WINDOW THEN << >>
    ELSE LET ref == total_depth(FromEnd(hist, DEPTH_DROP_WINDOW))
             now == total_depth(snap)
         IN IF ref < 1 THEN << >>
            ELSE IF DropAtLeast(ref, now, DEPTH_DROP_PCT)
            THEN << Alert(snap.ts, "DEPTH_DROP",
                          IF DropAtLeast(ref, now, 70) THEN "CRITICAL"
                          ELSE IF DropAtLeast(ref, now, 55) THEN "HIGH" ELSE "MEDIUM") >>
            ELSE << >>

\* a volume-vanish rule that needs more than the threshold to vanish
VolumeVanishOneStrict(snap, alert_type, now_v, prev_v) ==
    IF prev_v - now_v > VOLUME_VANISH_THRESHOLD
    THEN << Alert(snap.ts, alert_type, IF prev_v - now_v >= 100 THEN "HIGH" ELSE "MEDIUM") >>
    ELSE << >>

VolumeVanishOne(snap, alert_type, now_v, prev_v) ==
    IF prev_v - now_v >= VOLUME_VANISH_THRESHOLD
    THEN << Alert(snap.ts, alert_type, IF prev_v - now_v >= 100 THEN "HIGH" ELSE "MEDIUM") >>
    ELSE << >>

check_volume_vanish(snap, prev) ==
    VolumeVanishOne(snap, "VOLUME_VANISH_UP_BIDS", snap.depth_up_bids, prev.depth_up_bids)
    \o VolumeVanishOne(snap, "VOLUME_VANISH_UP_ASKS", snap.depth_up_asks, prev.depth_up_asks)
    \o VolumeVanishOne(snap, "VOLUME_VANISH_DOWN_BIDS", snap.depth_down_bids, prev.depth_down_bids)
    \o VolumeVanishOne(snap, "VOLUME_VANISH_DOWN_ASKS", snap.depth_down_asks, prev.depth_down_asks)

\* a divergence rule that fires from a move of exactly 0.03 % on
check_divergence_inclusive(snap, sp) ==
    IF sp = NoPrice \/ sp = 0 \/ snap.btc_price = 0 THEN << >>
    ELSE LET d == (snap.btc_price - sp) * 10000
             cheap == 2 * (50 - DIVERGENCE_THRESHOLD)
         IN IF d >= 3 * sp /\ mid_up2(snap) # 0 /\ mid_up2(snap) < cheap
            THEN << Alert(snap.ts, "DIVERGENCE_UP_CHEAP", "HIGH") >>
            ELSE IF d <= -3 * sp /\ mid_down2(snap) # 0 /\ mid_down2(snap) < cheap
            THEN << Alert(snap.ts, "DIVERGENCE_DOWN_CHEAP", "HIGH") >>
            ELSE << >>

\* btc_delta_pct = (btc - start) / start * 100;  btc_delta_pct > 0.03
\* <=> (btc - start) * 10000 > 3 * start; mid < 0.50 - DIVERGENCE_THRESHOLD
\* <=> mid2 < 2 * (50 - DIVERGENCE_THRESHOLD)
check_divergence(snap, sp) ==
    IF sp = NoPrice \/ sp = 0 \/ snap.btc_price = 0 THEN << >>
    ELSE LET d == (snap.btc_price - sp) * 10000
             cheap == 2 * (50 - DIVERGENCE_THRESHOLD)
         IN IF d > 3 * sp /\ mid_up2(snap) # 0 /\ mid_up2(snap) < cheap
            THEN << Alert(snap.ts, "DIVERGENCE_UP_CHEAP", "HIGH") >>
            ELSE IF d < -3 * sp /\ mid_down2(snap) # 0 /\ mid_down2(snap) < cheap
            THEN << Alert(snap.ts, "DIVERGENCE_DOWN_CHEAP", "HIGH") >>
            ELSE << >>

\* a spread rule without the floor of 0.10 on the current spread
SpreadOneNoFloor(snap, alert_type, bid, ask, prev_bid, prev_ask) ==
    IF bid = 0 \/ ask = 0 \/ prev_bid = 0 \/ prev_ask = 0 THEN << >>
    ELSE LET spread_now == ask - bid
             spread_prev == prev_ask - prev_bid
         IN IF spread_prev > 0 /\ spread_now >= 3 * spread_prev
            THEN << Alert(snap.ts, alert_type,
                          IF spread_now >= 5 * spread_prev THEN "HIGH" ELSE "MEDIUM") >>
            ELSE << >>

\* spread_now / spread_prev >= r  <=>  spread_now >= r * spread_prev  (spread_prev > 0)
SpreadOne(snap, alert_type, bid, ask, prev_bid, prev_ask) ==
    IF bid = 0 \/ ask = 0 \/ prev_bid = 0 \/ prev_ask = 0 THEN << >>
    ELSE LET spread_now == ask - bid
             spread_prev == prev_ask - prev_bid
         IN IF spread_prev > 0 /\ spread_now >= 3 * spread_prev /\ spread_now >= 10
            THEN << Alert(snap.ts, alert_type,
                          IF spread_now >= 5 * spread_prev THEN "HIGH" ELSE "MEDIUM") >>
            ELSE << >>

check_spread(snap, prev) ==
    SpreadOne(snap, "SPREAD_BLOWOUT_UP", snap.bid_up, snap.ask_up, prev.bid_up, prev.ask_up)
    \o SpreadOne(snap, "SPREAD_BLOWOUT_DOWN", snap.bid_down, snap.ask_down,
                 prev.bid_down, prev.ask_down)

\* an analyze that starts the detectors from the first history entry on
CandidatesFromOneEntry(snap, hist, sp) ==
    IF Len(hist) < 1 THEN << >>
    ELSE LET prev == FromEnd(hist, 1)
         IN check_price_jump(snap, prev)
            \o check_depth_drop(snap, hist)
            \o check_volume_vanish(snap, prev)
            \o check_divergence(snap, sp)
            \o check_spread(snap, prev)

\* the candidates of analyze(snap), in the order _fire_alert is called on them
Candidates(snap, hist, sp) ==
    IF Len(hist) < 2 THEN << >>
    ELSE LET prev == FromEnd(hist, 1)
         IN check_price_jump(snap, prev)
            \o check_depth_drop(snap, hist)
            \o check_volume_vanish(snap, prev)
            \o check_divergence(snap, sp)
            \o check_spread(snap, prev)

\* the five detectors, numbered in the order analyze calls them
DetectorCandidates(d, snap, hist, sp) ==
    LET prev == FromEnd(hist, 1)
    IN CASE d = 1 -> check_price_jump(snap, prev)
         [] d = 2 -> check_depth_drop(snap, hist)
         [] d = 3 -> check_volume_vanish(snap, prev)
         [] d = 4 -> check_divergence(snap, sp)
         [] d = 5 -> check_spread(snap, prev)

\* every order in which the five detectors can be called
DetectorOrders == {o \in [1..5 -> 1..5] : \A a, b \in 1..5 : o[a] = o[b] => a = b}

\* the candidates of an analyze that calls the detectors in the order o
CandidatesInOrder(o, snap, hist, sp) ==
    IF Len(hist) < 2 THEN << >>
    ELSE DetectorCandidates(o[1], snap, hist, sp)
         \o DetectorCandidates(o[2], snap, hist, sp)
         \o DetectorCandidates(o[3], snap, hist, sp)
         \o DetectorCandidates(o[4], snap, hist, sp)
         \o DetectorCandidates(o[5], snap, hist, sp)

\* ---- the cooldown gate ---------------------------------------------------
can_alert(lat, alert_type, now) ==
    now - DictGet(lat, alert_type, 0) >= ALERT_COOLDOWN

\* a gate at which a suppressed candidate restarts its type's cooldown
fire_alert_extends(st, alert, now, log_ok) ==
    IF ~can_alert(st.last_alert_time, alert.alert_type, now)
    THEN [st EXCEPT !.last_alert_time = DictPut(st.last_alert_time, alert.alert_type, alert.ts)]
    ELSE [last_alert_time |-> DictPut(st.last_alert_time, alert.alert_type, alert.ts),
          alerts |-> Append(st.alerts, alert),
          alert_count |-> st.alert_count + 1,
          alert_log |-> IF log_ok THEN Append(st.alert_log, alert) ELSE st.alert_log]

\* a gate that keeps one cooldown for all alert types together
fire_alert_one_cooldown(st, alert, now, log_ok) ==
    IF \E t \in DOMAIN st.last_alert_time : now - st.last_alert_time[t] < ALERT_COOLDOWN
    THEN st
    ELSE [last_alert_time |-> DictPut(st.last_alert_time, alert.alert_type, alert.ts),
          alerts |-> Append(st.alerts, alert),
          alert_count |-> st.alert_count + 1,
          alert_log |-> IF log_ok THEN Append(st.alert_log, alert) ELSE st.alert_log]

\* st = [last_alert_time, alerts, alert_count, alert_log]; `now` is the gate's
\* clock read, log_ok whether the append to ALERT_LOG succeeds
fire_alert(st, alert, now, log_ok) ==
    IF ~can_alert(st.last_alert_time, alert.alert_type, now) THEN st
    ELSE [last_alert_time |-> DictPut(st.last_alert_time, alert.alert_type, alert.ts),
          alerts |-> Append(st.alerts, alert),
          alert_count |-> st.alert_count + 1,
          alert_log |-> IF log_ok THEN Append(st.alert_log, alert) ELSE st.alert_log]

\* a pass that stops after the first candidate
FireFirstOnly(st, cands, i, now, log_ok) ==
    IF i > Len(cands) THEN st ELSE fire_alert(st, cands[i], now, log_ok)

RECURSIVE FireAll(_, _, _, _, _)
FireAll(st, cands, i, now, log_ok) ==
    IF i > Len(cands) THEN st
    ELSE FireAll(fire_alert(st, cands[i], now, log_ok), cands, i + 1, now, log_ok)

\* ---- counter-trade ----------------------------------------------------------
\* buy_price of _counter_trade in cents.  `ask if ask else mid + 0.01`: with no
\* ask the mid is the bid alone (or 0), a whole number of cents, so round(.., 2)
\* changes nothing.
BuyPrice(ask, mid2) == IF ask # 0 THEN ask ELSE (mid2 \div 2) + 1

\* whether _counter_trade(snap, label, mid_now, mid_prev) reaches place_limit_buy
\* (run sets detector.window before any snapshot is taken, so `not self.window`
\* is false).  size = round(COUNTER_TRADE_SIZE / buy_price, 1) < 1
\* <=> 5 / p < 0.95  <=>  COUNTER_TRADE_SIZE * 100 < 95 * buy_price (cents)
counter_trade(snap, label, mid_now2, mid_prev2) ==
    LET own_ask == IF label = "UP" THEN snap.ask_up ELSE snap.ask_down
        other_ask == IF label = "UP" THEN snap.ask_down ELSE snap.ask_up
        other_mid2 == IF label = "UP" THEN mid_down2(snap) ELSE mid_up2(snap)
        buy_price == IF mid_now2 < mid_prev2
                     THEN BuyPrice(own_ask, mid_now2)
                     ELSE BuyPrice(other_ask, other_mid2)
    IN /\ ~(buy_price <= 1 \/ buy_price >= 99)
       /\ ~(COUNTER_TRADE_SIZE * 100 < 95 * buy_price)

\* the place_limit_buy calls of one _check_price_jump pass: the call sits after
\* _fire_alert inside the threshold branch, whatever the gate decided
CounterTradeOne(snap, prev, label, mid_now2, mid_prev2, trade_enabled) ==
    IF /\ PriceJumpFires(snap, prev, mid_now2, mid_prev2)
       /\ trade_enabled
       /\ Abs(mid_now2 - mid_prev2) >= 2 * COUNTER_TRADE_EDGE
       /\ counter_trade(snap, label, mid_now2, mid_prev2)
    THEN 1 ELSE 0

CounterTrades(snap, hist, trade_enabled) ==
    IF Len(hist) < 2 THEN 0
    ELSE LET prev == FromEnd(hist, 1)
         IN CounterTradeOne(snap, prev, "UP", mid_up2(snap), mid_up2(prev), trade_enabled)
            + CounterTradeOne(snap, prev, "DOWN", mid_down2(snap), mid_down2(prev),
                              trade_enabled)

\* ---- the divisions of one analyze pass: the divisors actually divided by ----
\* line 222: `... / prev.btc_price * 100 if prev.btc_price else 0`
price_jump_divisors(snap, prev) ==
    IF prev.btc_price # 0 THEN {prev.btc_price} ELSE {}

\* lines 254-259: the division by ref.total_depth follows both returns
depth_drop_divisors(snap, hist) ==
    IF Len(hist) < DEPTH_DROP_WINDOW THEN {}
    ELSE LET ref == total_depth(FromEnd(hist, DEPTH_DROP_WINDOW))
         IN IF ref < 1 THEN {} ELSE {ref}

\* lines 298-301
divergence_divisors(snap, sp) ==
    IF sp = NoPrice \/ sp = 0 \/ snap.btc_price = 0 THEN {} ELSE {sp}

\* lines 333-338
SpreadDivisor(bid, ask, prev_bid, prev_ask) ==
    IF bid = 0 \/ ask = 0 \/ prev_bid = 0 \/ prev_ask = 0 THEN {}
    ELSE IF prev_ask - prev_bid > 0 THEN {prev_ask - prev_bid} ELSE {}

spread_divisors(snap, prev) ==
    SpreadDivisor(snap.bid_up, snap.ask_up, prev.bid_up, prev.ask_up)
    \cup SpreadDivisor(snap.bid_down, snap.ask_down, prev.bid_down, prev.ask_down)

\* _counter_trade, lines 369-372 / 392-395: COUNTER_TRADE_SIZE / buy_price
\* follows the return on buy_price <= 0.01
CounterTradeDivisor(snap, prev, label, mid_now2, mid_prev2, trade_enabled) ==
    LET own_ask == IF label = "UP" THEN snap.ask_up ELSE snap.ask_down
        other_ask == IF label = "UP" THEN snap.ask_down ELSE snap.ask_up
        other_mid2 == IF label = "UP" THEN mid_down2(snap) ELSE mid_up2(snap)
        buy_price == IF mid_now2 < mid_prev2
                     THEN BuyPrice(own_ask, mid_now2)
                     ELSE BuyPrice(other_ask, other_mid2)
    IN IF /\ PriceJumpFires(snap, prev, mid_now2, mid_prev2)
          /\ trade_enabled
          /\ Abs(mid_now2 - mid_prev2) >= 2 * COUNTER_TRADE_EDGE
          /\ ~(buy_price <= 1 \/ buy_price >= 99)
       THEN {buy_price} ELSE {}

Divisors(snap, hist, sp, trade_enabled) ==
    IF Len(hist) < 2 THEN {}
    ELSE LET prev == FromEnd(hist, 1)
         IN price_jump_divisors(snap, prev)
            \cup CounterTradeDivisor(snap, prev, "UP", mid_up2(snap), mid_up2(prev),
                                     trade_enabled)
            \cup CounterTradeDivisor(snap, prev, "DOWN", mid_down2(snap), mid_down2(prev),
                                     trade_enabled)
            \cup depth_drop_divisors(snap, hist)
            \cup divergence_divisors(snap, sp)
            \cup spread_divisors(snap, prev)

\* ---- market windows (market.py) ------------------------------------------
\* Python's None where a Window is expected
NoWindow == [slug |-> -1, start |-> 0, end |-> 0, active |-> FALSE]

Window(slug, start, end, active) ==
    [slug |-> slug, start |-> start, end |-> end, active |-> active]

current_window_timestamp(now, len) == now - (now % len)
next_window_timestamp(now, len) == current_window_timestamp(now, len) + len

is_expired(w, now) == now >= w.end

\* what client.fetch_window(ts) may return: nothing, or the window of that
\* epoch, which the venue reports active or not
fetch_window(ts, len) ==
    {NoWindow} \cup {Window(ts, ts, ts + len, a) : a \in BOOLEAN}

\* ---- the books the venue may serve -----------------------------------------
CalmBook == Book(45, 47, 53, 55, 100, 100, 100, 100, 50000)
\* both mids move 15 c with the reference unchanged, and three quarters of
\* every side are pulled
ShockBook == Book(60, 62, 38, 40, 25, 25, 25, 25, 50000)
\* UP quotes blown out and cheap while the reference is 0.2 % up
WideBook == Book(10, 50, 53, 55, 100, 100, 100, 100, 50100)

DetBooks == {CalmBook, ShockBook, WideBook}

\* books with fields at zero: no order at all; bids only; and CalmBook's and
\* ShockBook's quotes under a reference price of 0.0
EmptyBook == Book(0, 0, 0, 0, 0, 0, 0, 0, 50000)
BidOnlyBook == Book(45, 0, 53, 0, 100, 0, 100, 0, 50100)
NoRefCalmBook == Book(45, 47, 53, 55, 100, 100, 100, 100, 0)
NoRefShockBook == Book(60, 62, 38, 40, 25, 25, 25, 25, 0)

\* CalmBook's quotes over the given volumes on the four sides
VolBook(ub, ua, db, da) == Book(45, 47, 53, 55, ub, ua, db, da, 50000)

\* volumes whose differences are 0, 49, 50, 51 and 100, falling and rising
VolBooks == {VolBook(100, 100, 100, 100), VolBook(0, 50, 51, 100),
             VolBook(50, 0, 100, 51), VolBook(0, 0, 0, 0)}

\* full depth under the given quotes and reference price
DivBook(bu, au, bd, ad, btc) == Book(bu, au, bd, ad, 100, 100, 100, 100, btc)

\* against a start price of 50000: the reference 0.03 % and 0.032 % above and
\* below; mids of 0.345 and 0.35; both mids cheap; no quote at all
DivBooks == {DivBook(34, 35, 64, 66, 50016), DivBook(34, 36, 64, 66, 50016),
             DivBook(34, 35, 64, 66, 50015), DivBook(64, 66, 34, 35, 49984),
             DivBook(64, 66, 34, 35, 49985), DivBook(30, 32, 30, 32, 50016),
             DivBook(30, 32, 30, 32, 49984), DivBook(0, 0, 0, 0, 50016)}

RuleBooks == VolBooks \cup DivBooks

\* full depth and an unchanged reference under the given quotes
SprBook(bu, au, bd, ad) == Book(bu, au, bd, ad, 100, 100, 100, 100, 50000)

\* spreads of 2, 3 and 4 c, then 6, 10, 11, 12 and 20 c; a zero and a crossed
\* spread; a missing bid and a missing ask
SprBooks == {SprBook(45, 47, 50, 54), SprBook(45, 48, 50, 54),
             SprBook(42, 52, 44, 56), SprBook(44, 50, 45, 56),
             SprBook(40, 50, 40, 60), SprBook(47, 47, 55, 53),
             SprBook(0, 47, 53, 0)}

SparseBooks == {CalmBook, ShockBook, EmptyBook, BidOnlyBook, NoRefCalmBook, NoRefShockBook}

\* CalmBook's quotes over a book of the given total depth, split over the
\* four sides
DepthBook(total) ==
    LET q == total \div 4
    IN Book(45, 47, 53, 55, q + (total % 4), q, q, q, 50000)

\* total depths on both sides of each threshold of the depth-drop rule when
\* the reference depth is 100 (0.40, 0.55, 0.70), and an empty book
DepthBooks == {DepthBook(d) : d \in {0, 20, 30, 45, 50, 60, 61, 100}}

(***************************************************************************)
(* Part II state.  signal.py : AlertBus                                    *)
(***************************************************************************)
VARIABLES
    bus_cfg,          \* the constructor's arguments: file, stdout, socket_enabled, webhook_url
    subscribers,      \* AlertBus._subscribers
    socket_clients,   \* AlertBus._socket_clients
    lock,             \* AlertBus._lock: its holder, or None
    bus_file,         \* the lines of alerts.jsonl
    bus_stdout,       \* the lines printed
    cb_calls,         \* per callback, the alerts it was invoked with
    call_log,         \* every callback invocation so far, in order: <<callback, alert>>
    client_rx,        \* per socket client, the records sent to it
    webhook_posts,    \* the alerts POSTed
    bus_errors,       \* what logger.error recorded: <<kind, alert>>
    closed,           \* clients whose peer has gone away: sendall to them raises
    tpc,              \* per emit call, its position
    tidx,             \* per emit call, the index of the loop in progress
    tdead,            \* per emit call, _broadcast_socket's `dead`
    tried,            \* per emit call, the destinations it has dealt with
    accepted,         \* connections srv.accept() has returned so far
    sub_ops           \* subscribe / unsubscribe calls so far

busVars == <<bus_cfg, subscribers, socket_clients, lock, bus_file, bus_stdout,
             cb_calls, call_log, client_rx, webhook_posts, bus_errors, closed, tpc,
             tidx, tdead, tried, accepted, sub_ops>>

(***************************************************************************)
(* Part III state.  nonce_monitor.py : log_event and NonceStats            *)
(***************************************************************************)
VARIABLES
    nonce_events,     \* NonceStats.events: [caller, remaining_secs]
    by_address,       \* NonceStats.by_address: per key, how many events it holds
    nonce_alerts,     \* the calls of signal.emit made by log_event
    nonce_file        \* the lines the default bus wrote to alerts.jsonl for them

nonceVars == <<nonce_events, by_address, nonce_alerts, nonce_file>>

(***************************************************************************)
(* Part IV state.  blacklist_watchdog.py : run                             *)
(***************************************************************************)
VARIABLES
    wd_env,           \* the chain, the venue and the file system of the run, and its flags
    wd_pc,            \* position of run: "loop", "batch", "stopped"
    wd_head,          \* the chain head, what get_latest_block returns
    last_block,       \* run's cursor
    wd_to,            \* to_block of the batch in progress
    wd_block,         \* block_num of the batch in progress
    wd_alerts,        \* the records of blacklist_alerts.jsonl: [tx_hash, block, sold]
    wd_sells,         \* the emergency_sell calls made: [tx_hash, block, ops, result]
    wd_checked,       \* blocks whose fills were matched against the blacklist
    wd_state,         \* last_block in watchdog_state.json
    wd_errors         \* passes through `except Exception` so far

watchVars == <<wd_env, wd_pc, wd_head, last_block, wd_to, wd_block, wd_alerts, wd_sells,
               wd_checked, wd_state, wd_errors>>

\* what an action of one part leaves alone in the other parts
outsideDet == <<busVars, nonceVars, watchVars>>
outsideBus == <<detVars, nonceVars, watchVars>>
outsideNonce == <<detVars, busVars, watchVars>>
outsideWatch == <<detVars, busVars, nonceVars>>

vars == <<detVars, busVars, nonceVars, watchVars>>

(***************************************************************************)
(* Part I actions.  run() of manipulation_detector.py                      *)
(***************************************************************************)
gateVars == <<last_alert_time, alerts, alert_count, alert_log, trade_count, orders>>
runVars == <<cancel_requested, feed_running>>

NeedsWindow == window = NoWindow \/ is_expired(window, clock)

\* LoadWindow without line 451
LoadWindowKeepsHistory ==
    /\ pc = "top"
    /\ NeedsWindow
    /\ \E w \in fetch_window(current_window_timestamp(clock, env.windowLen), env.windowLen) :
         /\ w # NoWindow
         /\ w.active
         /\ window' = w
         /\ \E btc \in env.feed :
              /\ start_price' = btc
              /\ pc' = IF btc = NoPrice THEN "crashed" ELSE "poll"
    /\ UNCHANGED <<env, clock, history, appended, polls, fails, gateVars, runVars,
                   outsideDet>>

\* LoadWindow clearing the history for the first window only
LoadWindowClearsOnce ==
    /\ pc = "top"
    /\ NeedsWindow
    /\ \E w \in fetch_window(current_window_timestamp(clock, env.windowLen), env.windowLen) :
         /\ w # NoWindow
         /\ w.active
         /\ window' = w
         /\ \E btc \in env.feed :
              /\ start_price' = btc
              /\ pc' = IF btc = NoPrice THEN "crashed" ELSE "poll"
    /\ history' = IF window = NoWindow THEN << >> ELSE history
    /\ appended' = IF window = NoWindow THEN << >> ELSE appended
    /\ UNCHANGED <<env, clock, polls, fails, gateVars, runVars,
                   outsideDet>>

\* LoadWindow that also forgets the cooldowns
LoadWindowResetsCooldowns ==
    /\ pc = "top"
    /\ NeedsWindow
    /\ \E w \in fetch_window(current_window_timestamp(clock, env.windowLen), env.windowLen) :
         /\ w # NoWindow
         /\ w.active
         /\ window' = w
         /\ \E btc \in env.feed :
              /\ start_price' = btc
              /\ pc' = IF btc = NoPrice THEN "crashed" ELSE "poll"
    /\ history' = << >>
    /\ appended' = << >>
    /\ last_alert_time' = EmptyDict
    /\ UNCHANGED <<env, clock, polls, fails, alerts, alert_count, alert_log, trade_count,
                   orders, runVars, outsideDet>>

\* lines 443-452: an active window is fetched: it replaces the old one, the
\* start price is read from the feed and the history is cleared.  With no
\* price yet (None) the f-string of line 452 raises and run() ends.
LoadWindow ==
    /\ pc = "top"
    /\ NeedsWindow
    /\ \E w \in fetch_window(current_window_timestamp(clock, env.windowLen), env.windowLen) :
         /\ w # NoWindow
         /\ w.active
         /\ window' = w
         /\ \E btc \in env.feed :
              /\ start_price' = btc
              /\ pc' = IF btc = NoPrice THEN "crashed" ELSE "poll"
    /\ history' = << >>
    /\ appended' = << >>
    /\ UNCHANGED <<env, clock, polls, fails, gateVars, runVars,
                   outsideDet>>

\* lines 453-464: nothing fetched, or a window that is not active: sleep
\* min(wait + 1, 10) (5 when wait <= 0) and start the loop again
WaitWindow ==
    /\ pc = "top"
    /\ NeedsWindow
    /\ ~cancel_requested
    /\ fails < env.maxFails
    /\ \E w \in fetch_window(current_window_timestamp(clock, env.windowLen), env.windowLen) :
         w = NoWindow \/ ~w.active
    /\ LET wait == next_window_timestamp(clock, env.windowLen) - clock
           nap == IF wait > 0 THEN Min(wait + 1, 10) ELSE 5
       IN /\ clock + nap <= env.maxTime
          /\ clock' = clock + nap
    /\ fails' = fails + 1
    /\ UNCHANGED <<env, pc, window, start_price, history, appended, polls, gateVars, runVars,
                   outsideDet>>

\* line 443 false: the loaded window is still running
KeepWindow ==
    /\ pc = "top"
    /\ ~NeedsWindow
    /\ pc' = "poll"
    /\ UNCHANGED <<env, clock, window, start_price, history, appended, polls, fails,
                   gateVars, runVars,
                   outsideDet>>

\* a failed fetch that also drops the history
PollFailClearsHistory ==
    /\ pc = "poll"
    /\ fails < env.maxFails
    /\ fails' = fails + 1
    /\ pc' = "sleep"
    /\ history' = << >>
    /\ UNCHANGED <<env, clock, window, start_price, appended, polls, gateVars, runVars,
                   outsideDet>>

\* lines 467-470: _get_full_book returns None (no reference price, or the
\* book fetch raised)
PollFail ==
    /\ pc = "poll"
    /\ fails < env.maxFails
    /\ fails' = fails + 1
    /\ pc' = "sleep"
    /\ UNCHANGED <<env, clock, window, start_price, history, appended, polls, gateVars, runVars,
                   outsideDet>>

\* what analyze(snap) makes of the detector's state, each _fire_alert reading
\* the clock at `now`
analyze(snap, now, log_ok) ==
    FireAll([last_alert_time |-> last_alert_time, alerts |-> alerts,
             alert_count |-> alert_count, alert_log |-> alert_log],
            Candidates(snap, history, start_price), 1, now, log_ok)

\* lines 467-474: a snapshot is captured at `clock` (_get_full_book); analyze
\* runs the detectors against the history and passes each candidate to
\* _fire_alert, whose clock read is `lat` later; then the snapshot is appended.
PollOk ==
    /\ pc = "poll"
    /\ polls < env.maxTicks
    /\ \E b \in env.books, lat \in env.lats, log_ok \in env.logOks :
         LET snap == BookSnapshot(clock, window.slug, b)
             now == clock + lat
             st == analyze(snap, now, log_ok)
             n == CounterTrades(snap, history, env.trade)
         IN /\ last_alert_time' = st.last_alert_time
            /\ alerts' = st.alerts
            /\ alert_count' = st.alert_count
            /\ alert_log' = st.alert_log
            /\ orders' = orders + n
            /\ \E placed \in 0..n : trade_count' = trade_count + placed
            /\ history' = DequeAppend(history, snap, HISTORY_SIZE)
            /\ appended' = Append(appended, snap)
            /\ clock' = now
    /\ polls' = polls + 1
    /\ pc' = "sleep"
    /\ UNCHANGED <<env, window, start_price, fails, runVars, outsideDet>>

\* line 469 / 492: asyncio.sleep(POLL_INTERVAL), which may oversleep
Sleep ==
    /\ pc = "sleep"
    /\ ~cancel_requested
    /\ \E d \in env.delays :
         /\ clock + POLL_INTERVAL + d <= env.maxTime
         /\ clock' = clock + POLL_INTERVAL + d
    /\ pc' = "top"
    /\ UNCHANGED <<env, window, start_price, history, appended, polls, fails, gateVars, runVars,
                   outsideDet>>

NextDet == LoadWindow \/ WaitWindow \/ KeepWindow \/ PollFail \/ PollOk \/ Sleep

\* ---- start and end of run() -------------------------------------------------
\* run() has ended: by a return, or by the CancelledError that left it
RunEnded == {"returned", "raised"}

loopVars == <<env, window, start_price, history, appended, polls, fails, gateVars>>

\* lines 423-425: feed.get_price() is not None in one of the STARTUP_TRIES
\* iterations: break, and the loop of line 441 is entered.  run() starts with
\* the clock at 0 and every wait takes a second, so the clock counts the waits.
StartupReady ==
    /\ pc = "startup"
    /\ clock < STARTUP_TRIES
    /\ pc' = "top"
    /\ UNCHANGED <<clock, loopVars, runVars, outsideDet>>

\* lines 424-426: no price yet: await asyncio.sleep(1)
StartupSleep ==
    /\ pc = "startup"
    /\ clock < STARTUP_TRIES
    /\ pc' = "startup_sleep"
    /\ UNCHANGED <<clock, loopVars, runVars, outsideDet>>

\* line 426: the sleep is over
StartupWake ==
    /\ pc = "startup_sleep"
    /\ ~cancel_requested
    /\ clock' = clock + 1
    /\ pc' = "startup"
    /\ UNCHANGED <<loopVars, runVars, outsideDet>>

\* lines 427-430: the for loop ran out: feed.stop() and return
StartupGiveUp ==
    /\ pc = "startup"
    /\ clock >= STARTUP_TRIES
    /\ feed_running' = FALSE
    /\ pc' = "returned"
    /\ UNCHANGED <<clock, loopVars, cancel_requested, outsideDet>>

\* line 426 raises CancelledError, outside the try of line 440: it leaves run()
StartupCancelled ==
    /\ pc = "startup_sleep"
    /\ cancel_requested
    /\ pc' = "raised"
    /\ UNCHANGED <<clock, loopVars, runVars, outsideDet>>

\* main, lines 517-523: SIGINT or SIGTERM arrives; the handler cancels every
\* task of the loop.  (It comes while the run can still take its next tick.)
Shutdown ==
    /\ pc \notin RunEnded \cup {"crashed", "finally"}
    /\ ~cancel_requested
    /\ polls < env.maxTicks
    /\ cancel_requested' = TRUE
    /\ UNCHANGED <<clock, pc, loopVars, feed_running, outsideDet>>

\* line 469 / 492 raises CancelledError, caught at line 494
SleepCancelled ==
    /\ pc = "sleep"
    /\ cancel_requested
    /\ pc' = "finally"
    /\ UNCHANGED <<clock, loopVars, runVars, outsideDet>>

\* line 461 / 463 raises CancelledError, caught at line 494
WaitWindowCancelled ==
    /\ pc = "top"
    /\ NeedsWindow
    /\ cancel_requested
    /\ \E w \in fetch_window(current_window_timestamp(clock, env.windowLen), env.windowLen) :
         w = NoWindow \/ ~w.active
    /\ pc' = "finally"
    /\ UNCHANGED <<clock, loopVars, runVars, outsideDet>>

\* lines 496-503: feed.stop(), the feed task is cancelled and awaited, and
\* run() returns
Finally ==
    /\ pc = "finally"
    /\ feed_running' = FALSE
    /\ pc' = "returned"
    /\ UNCHANGED <<clock, loopVars, cancel_requested, outsideDet>>

\* the steps of the task that runs run()
RunTask ==
    \/ StartupReady \/ StartupSleep \/ StartupWake \/ StartupGiveUp \/ StartupCancelled
    \/ NextDet
    \/ SleepCancelled \/ WaitWindowCancelled \/ Finally

NextRun == RunTask \/ Shutdown

(***************************************************************************)
(* Part II actions.  AlertBus of signal.py                                 *)
(***************************************************************************)
\* emit calls in a run, each on a thread of its own
NumEmitters == 2
\* connections the accept thread takes in a run
MaxClients == 2
\* subscribe / unsubscribe calls in a run
MaxSubOps == 2

\* an emit call, and the alert make_alert builds for it, go by the same name
EmitterName(i) == IF i = 1 THEN "e1" ELSE IF i = 2 THEN "e2" ELSE "e3"
Emitters == {EmitterName(i) : i \in 1..NumEmitters}
Acceptor == "acceptor"
Api == "api"

Callbacks == {"cb_ok", "cb_raises"}
\* a callback that raises an Exception whenever it is invoked
Raises(cb) == cb = "cb_raises"

\* subscribers that call back into the bus they are invoked by: bus.subscribe,
\* bus.unsubscribe or bus.emit on the same AlertBus
ReentrantCallbacks == {"cb_subscribes", "cb_unsubscribes", "cb_emits"}
Reenters(cb) == cb \in ReentrantCallbacks

\* the alert made by the emit call a callback issues while it handles alert t
Nested(t) == IF t = "e1" THEN "e1_nested" ELSE IF t = "e2" THEN "e2_nested" ELSE "e3_nested"

Clients == 1..MaxClients

BusConfig(file, stdout, socket_enabled, webhook_url) ==
    [file |-> file, stdout |-> stdout, socket_enabled |-> socket_enabled,
     webhook_url |-> webhook_url]

BusConfigs ==
    {BusConfig(TRUE, TRUE, TRUE, "url"),
     BusConfig(FALSE, FALSE, FALSE, None)}

\* list.remove(d) for each d of dead: drops the first occurrence
RECURSIVE RemoveFirst(_, _)
RemoveFirst(q, d) ==
    IF q = << >> THEN << >>
    ELSE IF Head(q) = d THEN Tail(q)
    ELSE << Head(q) >> \o RemoveFirst(Tail(q), d)

\* a broadcast that forgets to drop the clients whose write failed
RemoveNothing(q, dead) == q

RECURSIVE RemoveAll(_, _)
RemoveAll(q, dead) ==
    IF dead = << >> THEN q ELSE RemoveAll(RemoveFirst(q, Head(dead)), Tail(dead))

\* an unsubscribe that drops one registration only (list.remove)
WithoutFirst(q, cb) == RemoveFirst(q, cb)

\* [s for s in subscribers if s != callback]
RECURSIVE Without(_, _)
Without(q, cb) ==
    IF q = << >> THEN << >>
    ELSE IF Head(q) = cb THEN Without(Tail(q), cb)
    ELSE << Head(q) >> \o Without(Tail(q), cb)

outVars == <<bus_file, bus_stdout, cb_calls, call_log, client_rx, webhook_posts, bus_errors>>
envVars == <<bus_cfg, closed, accepted, sub_ops>>

\* a file write outside any try: its Exception leaves emit
FileErrorPropagates == "raised_file"

\* where an emit call goes when its file write raises: the try of lines 163-167
\* logs the Exception and emit goes on
AfterFileError == "stdout"

\* an emit that opens the alert file with mode "w"
EmitFileTruncates(t) ==
    /\ tpc[t] = "idle"
    /\ IF bus_cfg.file
       THEN \E ok \in BOOLEAN :
                IF ok
                THEN /\ bus_file' = << t >>
                     /\ tpc' = [tpc EXCEPT ![t] = "stdout"]
                     /\ UNCHANGED bus_errors
                ELSE /\ bus_errors' = bus_errors \cup {<<"file", t>>}
                     /\ tpc' = [tpc EXCEPT ![t] = AfterFileError]
                     /\ UNCHANGED bus_file
       ELSE /\ tpc' = [tpc EXCEPT ![t] = "stdout"]
            /\ UNCHANGED <<bus_file, bus_errors>>
    /\ tried' = [tried EXCEPT ![t] = IF bus_cfg.file THEN {"file"} ELSE {}]
    /\ UNCHANGED <<outsideBus, envVars, bus_stdout, cb_calls, call_log, client_rx, webhook_posts,
                   subscribers, socket_clients, lock, tidx, tdead>>

\* emit, lines 159-167: make_alert and the append to the alert file
EmitFile(t) ==
    /\ tpc[t] = "idle"
    /\ IF bus_cfg.file
       THEN \E ok \in BOOLEAN :
                IF ok
                THEN /\ bus_file' = Append(bus_file, t)
                     /\ tpc' = [tpc EXCEPT ![t] = "stdout"]
                     /\ UNCHANGED bus_errors
                ELSE /\ bus_errors' = bus_errors \cup {<<"file", t>>}
                     /\ tpc' = [tpc EXCEPT ![t] = AfterFileError]
                     /\ UNCHANGED bus_file
       ELSE /\ tpc' = [tpc EXCEPT ![t] = "stdout"]
            /\ UNCHANGED <<bus_file, bus_errors>>
    /\ tried' = [tried EXCEPT ![t] = IF bus_cfg.file THEN {"file"} ELSE {}]
    /\ UNCHANGED <<outsideBus, envVars, bus_stdout, cb_calls, call_log, client_rx, webhook_posts,
                   subscribers, socket_clients, lock, tidx, tdead>>

\* emit, lines 170-171: print is not guarded: if it raises, emit raises
EmitStdout(t) ==
    /\ tpc[t] = "stdout"
    /\ IF bus_cfg.stdout
       THEN \E ok \in BOOLEAN :
                IF ok
                THEN /\ bus_stdout' = Append(bus_stdout, t)
                     /\ tpc' = [tpc EXCEPT ![t] = "subs_lock"]
                ELSE /\ UNCHANGED bus_stdout
                     /\ tpc' = [tpc EXCEPT ![t] = "raised_stdout"]
       ELSE /\ UNCHANGED bus_stdout
            /\ tpc' = [tpc EXCEPT ![t] = "subs_lock"]
    /\ UNCHANGED <<outsideBus, envVars, bus_file, cb_calls, call_log, client_rx, webhook_posts, bus_errors,
                   subscribers, socket_clients, lock, tidx, tdead, tried>>

\* emit, line 174: with self._lock
EmitSubsLock(t) ==
    /\ tpc[t] = "subs_lock"
    /\ lock = None
    /\ lock' = t
    /\ tidx' = [tidx EXCEPT ![t] = 1]
    /\ tpc' = [tpc EXCEPT ![t] = "subs"]
    /\ UNCHANGED <<outsideBus, outVars, envVars, subscribers, socket_clients, tdead, tried>>

\* a subscriber loop without the try of lines 176-179: the first callback
\* that raises ends the loop
EmitSubsCallStopsOnError(t) ==
    /\ tpc[t] = "subs"
    /\ tidx[t] <= Len(subscribers)
    /\ LET cb == subscribers[tidx[t]]
       IN /\ cb_calls' = [cb_calls EXCEPT ![cb] = Append(@, t)]
          /\ call_log' = Append(call_log, <<cb, t>>)
          /\ bus_errors' = IF Raises(cb) THEN bus_errors \cup {<<"subscriber", t>>}
                           ELSE bus_errors
          /\ tidx' = [tidx EXCEPT ![t] = IF Raises(cb) THEN Len(subscribers) + 1 ELSE @ + 1]
    /\ UNCHANGED <<outsideBus, envVars, bus_file, bus_stdout, client_rx, webhook_posts,
                   subscribers, socket_clients, lock, tpc, tdead, tried>>

\* emit, lines 175-179: one callback is invoked; its Exception is logged
EmitSubsCall(t) ==
    /\ tpc[t] = "subs"
    /\ tidx[t] <= Len(subscribers)
    /\ ~Reenters(subscribers[tidx[t]])
    /\ LET cb == subscribers[tidx[t]]
       IN /\ cb_calls' = [cb_calls EXCEPT ![cb] = Append(@, t)]
          /\ call_log' = Append(call_log, <<cb, t>>)
          /\ bus_errors' = IF Raises(cb) THEN bus_errors \cup {<<"subscriber", t>>}
                           ELSE bus_errors
    /\ tidx' = [tidx EXCEPT ![t] = @ + 1]
    /\ UNCHANGED <<outsideBus, envVars, bus_file, bus_stdout, client_rx, webhook_posts,
                   subscribers, socket_clients, lock, tpc, tdead, tried>>

\* emit, lines 174-177, with a callback that calls back into the bus.  cb(alert)
\* runs on the emitting thread inside `with self._lock`, and _lock is a
\* threading.Lock (line 140), which its holder cannot take again: subscribe
\* (line 150), unsubscribe (line 154) and the nested emit (line 174) block in
\* `with self._lock` for good, since only the blocked thread would release it.
\* A nested emit first writes its own alert to the file (its failure is
\* logged, lines 163-167) and to stdout; an Exception of that print leaves
\* the callback and is logged by the subscriber loop, which goes on.
EmitSubsCallReenters(t) ==
    /\ tpc[t] = "subs"
    /\ tidx[t] <= Len(subscribers)
    /\ Reenters(subscribers[tidx[t]])
    /\ LET cb == subscribers[tidx[t]]
       IN /\ cb_calls' = [cb_calls EXCEPT ![cb] = Append(@, t)]
          /\ call_log' = Append(call_log, <<cb, t>>)
          /\ IF cb = "cb_emits"
             THEN \E file_ok, print_ok \in BOOLEAN :
                      /\ bus_file' = IF bus_cfg.file /\ file_ok
                                     THEN Append(bus_file, Nested(t)) ELSE bus_file
                      /\ bus_stdout' = IF bus_cfg.stdout /\ print_ok
                                       THEN Append(bus_stdout, Nested(t)) ELSE bus_stdout
                      /\ bus_errors' =
                             bus_errors
                             \cup (IF bus_cfg.file /\ ~file_ok
                                   THEN {<<"file", Nested(t)>>} ELSE {})
                             \cup (IF bus_cfg.stdout /\ ~print_ok
                                   THEN {<<"subscriber", t>>} ELSE {})
                      /\ IF bus_cfg.stdout /\ ~print_ok
                         THEN /\ tidx' = [tidx EXCEPT ![t] = @ + 1]
                              /\ UNCHANGED tpc
                         ELSE /\ tpc' = [tpc EXCEPT ![t] = "cb_lock"]
                              /\ UNCHANGED tidx
             ELSE /\ tpc' = [tpc EXCEPT ![t] = "cb_lock"]
                  /\ UNCHANGED <<bus_file, bus_stdout, bus_errors, tidx>>
    /\ UNCHANGED <<outsideBus, envVars, client_rx, webhook_posts,
                   subscribers, socket_clients, lock, tdead, tried>>

\* emit, line 174: the with block is left
EmitSubsDone(t) ==
    /\ tpc[t] = "subs"
    /\ tidx[t] > Len(subscribers)
    /\ lock' = None
    /\ tried' = [tried EXCEPT ![t] = @ \cup {"subscribers"}]
    /\ tpc' = [tpc EXCEPT ![t] = "sock_check"]
    /\ UNCHANGED <<outsideBus, outVars, envVars, subscribers, socket_clients, tidx, tdead>>

\* _broadcast_socket, lines 214-215: `if not self._socket_clients: return`
EmitSockCheck(t) ==
    /\ tpc[t] = "sock_check"
    /\ IF socket_clients = << >>
       THEN /\ tpc' = [tpc EXCEPT ![t] = "webhook"]
            /\ tried' = [tried EXCEPT ![t] = @ \cup {"socket"}]
       ELSE /\ tpc' = [tpc EXCEPT ![t] = "sock_lock"]
            /\ UNCHANGED tried
    /\ UNCHANGED <<outsideBus, outVars, envVars, subscribers, socket_clients, lock, tidx, tdead>>

\* _broadcast_socket, lines 216-218
EmitSockLock(t) ==
    /\ tpc[t] = "sock_lock"
    /\ lock = None
    /\ lock' = t
    /\ tidx' = [tidx EXCEPT ![t] = 1]
    /\ tdead' = [tdead EXCEPT ![t] = << >>]
    /\ tpc' = [tpc EXCEPT ![t] = "send"]
    /\ UNCHANGED <<outsideBus, outVars, envVars, subscribers, socket_clients, tried>>

\* _broadcast_socket, lines 219-223: sendall to one client
EmitSend(t) ==
    /\ tpc[t] = "send"
    /\ tidx[t] <= Len(socket_clients)
    /\ LET c == socket_clients[tidx[t]]
       IN IF c \in closed
          THEN /\ tdead' = [tdead EXCEPT ![t] = Append(@, c)]
               /\ UNCHANGED client_rx
          ELSE /\ client_rx' = [client_rx EXCEPT ![c] = Append(@, t)]
               /\ UNCHANGED tdead
    /\ tidx' = [tidx EXCEPT ![t] = @ + 1]
    /\ UNCHANGED <<outsideBus, envVars, bus_file, bus_stdout, cb_calls, call_log, webhook_posts, bus_errors,
                   subscribers, socket_clients, lock, tpc, tried>>

\* _broadcast_socket, lines 224-225, and the with block is left
EmitSendDone(t) ==
    /\ tpc[t] = "send"
    /\ tidx[t] > Len(socket_clients)
    /\ socket_clients' = RemoveAll(socket_clients, tdead[t])
    /\ lock' = None
    /\ tried' = [tried EXCEPT ![t] = @ \cup {"socket"}]
    /\ tpc' = [tpc EXCEPT ![t] = "webhook"]
    /\ UNCHANGED <<outsideBus, outVars, envVars, subscribers, tidx, tdead>>

\* emit, lines 185-188 and _send_webhook: the POST, whose Exception is logged,
\* and `return alert`
EmitWebhook(t) ==
    /\ tpc[t] = "webhook"
    /\ IF bus_cfg.webhook_url # None
       THEN \E ok \in BOOLEAN :
                IF ok
                THEN webhook_posts' = Append(webhook_posts, t) /\ UNCHANGED bus_errors
                ELSE bus_errors' = bus_errors \cup {<<"webhook", t>>}
                     /\ UNCHANGED webhook_posts
       ELSE UNCHANGED <<webhook_posts, bus_errors>>
    /\ tried' = [tried EXCEPT ![t] = IF bus_cfg.webhook_url # None THEN @ \cup {"webhook"} ELSE @]
    /\ tpc' = [tpc EXCEPT ![t] = "returned"]
    /\ UNCHANGED <<outsideBus, envVars, bus_file, bus_stdout, cb_calls, call_log, client_rx,
                   subscribers, socket_clients, lock, tidx, tdead>>

\* an accept thread that sends the alert file to the client it has accepted
AcceptReplays ==
    /\ bus_cfg.socket_enabled
    /\ accepted < MaxClients
    /\ lock = None
    /\ accepted' = accepted + 1
    /\ socket_clients' = Append(socket_clients, accepted + 1)
    /\ client_rx' = [client_rx EXCEPT ![accepted + 1] = bus_file]
    /\ UNCHANGED <<outsideBus, bus_file, bus_stdout, cb_calls, call_log, webhook_posts, bus_errors,
                   bus_cfg, closed, sub_ops, subscribers, lock, tpc, tidx, tdead, tried>>

\* _server, lines 202-204: srv.accept() returns a connection, which is
\* appended to the client list under the lock
Accept ==
    /\ bus_cfg.socket_enabled
    /\ accepted < MaxClients
    /\ lock = None
    /\ accepted' = accepted + 1
    /\ socket_clients' = Append(socket_clients, accepted + 1)
    /\ UNCHANGED <<outsideBus, outVars, bus_cfg, closed, sub_ops, subscribers, lock, tpc,
                   tidx, tdead, tried>>

\* the peer of a connected client goes away
ClientClose(c) ==
    /\ c <= accepted
    /\ c \notin closed
    /\ closed' = closed \cup {c}
    /\ UNCHANGED <<outsideBus, outVars, bus_cfg, accepted, sub_ops, subscribers, socket_clients,
                   lock, tpc, tidx, tdead, tried>>

\* subscribe, lines 148-151
subscribe(cb) ==
    /\ sub_ops < MaxSubOps
    /\ lock = None
    /\ subscribers' = Append(subscribers, cb)
    /\ sub_ops' = sub_ops + 1
    /\ UNCHANGED <<outsideBus, outVars, bus_cfg, closed, accepted, socket_clients, lock, tpc,
                   tidx, tdead, tried>>

\* unsubscribe, lines 153-155
unsubscribe(cb) ==
    /\ sub_ops < MaxSubOps
    /\ lock = None
    /\ subscribers' = Without(subscribers, cb)
    /\ sub_ops' = sub_ops + 1
    /\ UNCHANGED <<outsideBus, outVars, bus_cfg, closed, accepted, socket_clients, lock, tpc,
                   tidx, tdead, tried>>

NextBus ==
    \/ \E t \in Emitters :
         \/ EmitFile(t) \/ EmitStdout(t)
         \/ EmitSubsLock(t) \/ EmitSubsCall(t) \/ EmitSubsDone(t)
         \/ EmitSockCheck(t) \/ EmitSockLock(t) \/ EmitSend(t) \/ EmitSendDone(t)
         \/ EmitWebhook(t)
    \/ Accept
    \/ \E c \in Clients : ClientClose(c)
    \/ \E cb \in Callbacks : subscribe(cb) \/ unsubscribe(cb)

\* the bus without its socket server: no connection is ever accepted, and
\* _broadcast_socket returns at line 215
NextSubs ==
    \/ \E t \in Emitters :
         \/ EmitFile(t) \/ EmitStdout(t)
         \/ EmitSubsLock(t) \/ EmitSubsCall(t) \/ EmitSubsDone(t)
         \/ EmitSockCheck(t)
         \/ EmitWebhook(t)
    \/ \E cb \in Callbacks : subscribe(cb) \/ unsubscribe(cb)

\* the bus without socket server, with subscribers that call back into it
NextReenter ==
    \/ \E t \in Emitters :
         \/ EmitFile(t) \/ EmitStdout(t)
         \/ EmitSubsLock(t) \/ EmitSubsCall(t) \/ EmitSubsCallReenters(t) \/ EmitSubsDone(t)
         \/ EmitSockCheck(t)
         \/ EmitWebhook(t)
    \/ \E cb \in Callbacks \cup ReentrantCallbacks : subscribe(cb) \/ unsubscribe(cb)

(***************************************************************************)
(* Part III actions.  nonce_monitor.py                                     *)
(***************************************************************************)
\* incrementNonce events in a run
MaxEvents == 4

\* tx["from"] as the node library hands it over: an address spelled with
\* digits only, and a checksummed one, which has upper-case letters
NonceCallers == {"0x1234", "0xCd34"}

\* str.lower() on the addresses of the model
Lower(a) == IF a = "0xCd34" THEN "0xcd34" ELSE a

\* window["remaining_secs"] of an event: on both sides of the 30 s mark
Remainings == {29, 30, 200}

\* log_event, lines 138-142: the code and severity handed to signal.emit;
\* by_addr is stats.by_address after stats.add(event)
NonceCode(by_addr, caller, remaining) ==
    LET is_late == remaining < 30
        is_new == DictGet(by_addr, Lower(caller), 0) <= 1
    IN [code |-> IF is_late THEN "SUSPICIOUS_TIMING"
                 ELSE IF is_new THEN "NEW_EXPLOITER" ELSE "NONCE_INCREMENT",
        severity |-> IF is_late THEN "warning" ELSE "info"]

\* ---- Python values, and the JSON documents json.dumps makes of them -------
PyStr(x) == [k |-> "str", s |-> x]
PyInt(x) == [k |-> "int", n |-> x]
\* a float with one decimal, carried in tenths
PyFloat(x) == [k |-> "float", tenths |-> x]
\* a dict, as its items in insertion order: <<key, value>>
PyDict(items) == [k |-> "dict", items |-> items]
PyList(items) == [k |-> "list", items |-> items]
PyTuple(items) == [k |-> "tuple", items |-> items]

\* str(n) for the integers that occur as keys
IntText(x) == IF x = 0 THEN "0" ELSE IF x = 1 THEN "1" ELSE "2"

\* a JSON object's member name: a str key as it is, an int key as its digits
KeyText(key) == IF key.k = "str" THEN key.s ELSE IntText(key.n)

\* a json.dumps that writes every number between quotes
RECURSIVE json_dumps_quoting_numbers(_)
json_dumps_quoting_numbers(x) ==
    IF x.k = "str" THEN [j |-> "string", s |-> x.s]
    ELSE IF x.k = "int" THEN [j |-> "string", s |-> IntText(x.n)]
    ELSE IF x.k = "float" THEN [j |-> "string", s |-> "float"]
    ELSE IF x.k \in {"list", "tuple"}
    THEN [j |-> "array",
          items |-> [i \in 1..Len(x.items) |-> json_dumps_quoting_numbers(x.items[i])]]
    ELSE [j |-> "object",
          members |-> [i \in 1..Len(x.items) |->
                          <<KeyText(x.items[i][1]), json_dumps_quoting_numbers(x.items[i][2])>>]]

\* json.dumps: the document, as a tree.  A float is written with a decimal
\* point and an int without; list and tuple both become an array; every key
\* of a dict becomes a string.
RECURSIVE json_dumps(_)
json_dumps(x) ==
    IF x.k = "str" THEN [j |-> "string", s |-> x.s]
    ELSE IF x.k = "int" THEN [j |-> "number", int |-> x.n]
    ELSE IF x.k = "float" THEN [j |-> "number", tenths |-> x.tenths]
    ELSE IF x.k \in {"list", "tuple"}
    THEN [j |-> "array", items |-> [i \in 1..Len(x.items) |-> json_dumps(x.items[i])]]
    ELSE [j |-> "object",
          members |-> [i \in 1..Len(x.items) |->
                          <<KeyText(x.items[i][1]), json_dumps(x.items[i][2])>>]]

\* json.loads: a number without decimal point is an int, an array a list, an
\* object a dict with str keys
RECURSIVE json_loads(_)
json_loads(d) ==
    IF d.j = "string" THEN PyStr(d.s)
    ELSE IF d.j = "number"
    THEN (IF "int" \in DOMAIN d THEN PyInt(d.int) ELSE PyFloat(d.tenths))
    ELSE IF d.j = "array"
    THEN PyList([i \in 1..Len(d.items) |-> json_loads(d.items[i])])
    ELSE PyDict([i \in 1..Len(d.members) |->
                    <<PyStr(d.members[i][1]), json_loads(d.members[i][2])>>])

\* dict[key] of a dict that holds the key
PyGet(d, key) ==
    LET i == CHOOSE i \in 1..Len(d.items) : d.items[i][1] = PyStr(key)
    IN d.items[i][2]

\* round(elapsed / 300 * 100, 1) of get_btc_window, in tenths, with
\* elapsed = 300 - remaining
PctElapsedTenths(remaining) == ((300 - remaining) * 20 + 3) \div 6

\* log_event, lines 148-158: the data handed to signal.emit
NonceData(caller, remaining, block) ==
    PyDict(<< <<PyStr("caller"), PyStr(caller)>>,
              <<PyStr("tx_hash"), PyStr("0xhash")>>,
              <<PyStr("block"), PyInt(block)>>,
              <<PyStr("market_window"),
                PyDict(<< <<PyStr("window_id"), PyStr("btc-updown-5m")>>,
                          <<PyStr("seconds_remaining"), PyFloat(10 * remaining)>>,
                          <<PyStr("pct_elapsed"), PyFloat(PctElapsedTenths(remaining))>> >>)>>,
              <<PyStr("action"), PyStr(IF remaining < 30 THEN "CANCEL" ELSE "HOLD")>> >>)

\* signal.make_alert, lines 94-108
make_alert(code, severity, source, data) ==
    PyDict(<< <<PyStr("version"), PyInt(1)>>,
              <<PyStr("timestamp"), PyStr("now")>>,
              <<PyStr("code"), PyStr(code)>>,
              <<PyStr("severity"), PyStr(severity)>>,
              <<PyStr("source"), PyStr(source)>>,
              <<PyStr("data"), data>> >>)

\* log_event: stats.add(event) (lines 75-81), then the alert is emitted on the
\* default bus, which appends json.dumps(alert) to its file (signal.py 162-165)
log_event(caller, remaining) ==
    /\ Len(nonce_events) < MaxEvents
    /\ nonce_events' = Append(nonce_events, [caller |-> caller, remaining |-> remaining])
    /\ by_address' = DictPut(by_address, caller, DictGet(by_address, caller, 0) + 1)
    /\ LET c == NonceCode(by_address', caller, remaining)
           data == NonceData(caller, remaining, Len(nonce_events) + 1)
       IN /\ nonce_alerts' = Append(nonce_alerts,
                                    [code |-> c.code, severity |-> c.severity, data |-> data])
          /\ nonce_file' = Append(nonce_file,
                                  json_dumps(make_alert(c.code, c.severity, "nonce_monitor", data)))
    /\ UNCHANGED outsideNonce

NextNonce == \E caller \in NonceCallers, remaining \in Remainings : log_event(caller, remaining)

(***************************************************************************)
(* Part IV.  blacklist_watchdog.py and counterparty_checker.py             *)
(*                                                                         *)
(* Units.  Bids and sell prices are in cents, the amounts of a fill in     *)
(* millionths of a share as on chain, sell sizes in tenths of a share,     *)
(* filled sizes in hundredths of a share.                                  *)
(***************************************************************************)
\* blacklist_watchdog.py:45
MAX_BLOCKS_PER_POLL == 20
\* blacklist_watchdog.py:46, as a percentage
SELL_AGGRESSION == 95
\* the percentages of the retry (line 113) and of the panic order (line 125)
RETRY_AGGRESSION == 85
PANIC_AGGRESSION == 75

\* bound: the block the watchdog starts from, and the highest chain head
StartBlock == 10
HeadSpan == 23
\* bound: passes through `except Exception` in a run
MaxWdErrors == 2

PROXY_ADDRESS == "0xPROXY"
BadAddress == "0xBAD"
GoodAddress == "0xGOOD"

\* str.lower() on the addresses of the watchdog runs
AddrLower(a) ==
    IF a = "0xPROXY" THEN "0xproxy"
    ELSE IF a = "0xBAD" THEN "0xbad"
    ELSE IF a = "0xGOOD" THEN "0xgood"
    ELSE a

\* Blacklist._addresses: lower-case addresses
BlacklistAddresses == {"0xbad"}

\* Blacklist.is_blacklisted
is_blacklisted(address) == AddrLower(address) \in BlacklistAddresses

\* round(n / d) for n >= 0
Round(n, d) == (2 * n + d) \div (2 * d)

\* ---- the chain -----------------------------------------------------------
\* what a block holds for the exchange: no OrderFilled log, or one
FillKinds == {"bad_we_take", "bad_we_make", "bad_short", "bad_dust", "clean", "foreign"}

\* parse_order_filled_log of the log of a block, with tx_hash and block added
\* (lines 81-88); a log with less than 160 bytes of data gives maker and
\* taker only (lines 47-48)
ParsedFill(kind, block) ==
    LET maker == IF kind = "bad_we_make" THEN PROXY_ADDRESS
                 ELSE IF kind \in {"clean", "foreign"} THEN GoodAddress
                 ELSE BadAddress
        taker == IF kind = "bad_we_make" THEN BadAddress
                 ELSE IF kind = "foreign" THEN BadAddress
                 ELSE PROXY_ADDRESS
    IN IF kind = "bad_short"
       THEN [maker |-> maker, taker |-> taker, tx_hash |-> block, block |-> block,
             maker_asset_id |-> "", taker_asset_id |-> "",
             maker_amount |-> 0, taker_amount |-> 0]
       ELSE IF kind = "bad_dust"
       THEN [maker |-> maker, taker |-> taker, tx_hash |-> block, block |-> block,
             maker_asset_id |-> "0xa1", taker_asset_id |-> "0xb2",
             maker_amount |-> 40000, taker_amount |-> 20000]
       ELSE [maker |-> maker, taker |-> taker, tx_hash |-> block, block |-> block,
             maker_asset_id |-> "0xa1", taker_asset_id |-> "0xb2",
             maker_amount |-> 5000000, taker_amount |-> 2000000]

\* get_fills_in_block: a get_logs that raises is logged and gives [] (lines
\* 70-79)
get_fills_in_block(chain, block_number, logs_ok) ==
    IF ~logs_ok \/ chain[block_number] = "empty" THEN << >>
    ELSE << ParsedFill(chain[block_number], block_number) >>

\* get_fills_for_address, lines 92-96
get_fills_for_address(chain, block_number, address, logs_ok) ==
    SelectSeq(get_fills_in_block(chain, block_number, logs_ok),
              LAMBDA f : \/ AddrLower(f.maker) = AddrLower(address)
                         \/ AddrLower(f.taker) = AddrLower(address))

\* get_counterparty, lines 99-106
get_counterparty(fill, our_address) ==
    IF AddrLower(fill.maker) = AddrLower(our_address) THEN fill.taker
    ELSE IF AddrLower(fill.taker) = AddrLower(our_address) THEN fill.maker
    ELSE None

\* ---- emergency_sell --------------------------------------------------------
\* get_order_fill returning None
NoFill == -1
\* size_matched equal to the size of the order
FullFill == -2

\* how the venue answers the calls of one emergency_sell: get_order_book
\* (raising or not, best bid in cents, 0 with no bids), the three
\* place_limit_sell calls (an order id, None, or an Exception) and the two
\* get_order_fill calls
VenueAnswer(book, best_bid, p1, p2, p3, f1, f2) ==
    [book |-> book, best_bid |-> best_bid, p1 |-> p1, p2 |-> p2, p3 |-> p3,
     f1 |-> f1, f2 |-> f2]

\* round(max(best_bid * pct, 0.01), 2), in cents
SellPrice(best_bid, pct) ==
    LET x == Round(best_bid * pct, 100) IN IF x < 1 THEN 1 ELSE x

\* the calls made on the venue
PlaceOp(n, price, size, answer) ==
    [op |-> "place_limit_sell", n |-> n, price |-> price, size |-> size,
     placed |-> answer = "id"]
FillOp(n, filled) == [op |-> "get_order_fill", n |-> n, filled |-> filled]
CancelOp(n) == [op |-> "cancel_order", n |-> n]

\* an emergency_sell that leaves the first order on the book
cancel_order_skipped(n) == << >>

\* line 124: client.cancel_order(order_id)
cancel_order(n) == << CancelOp(n) >>

\* float(fill.get("size_matched", 0)) if fill else 0, in hundredths
SizeMatched(f, size) ==
    IF f = NoFill THEN 0 ELSE IF f = FullFill THEN 10 * size ELSE f

SellReturn(ops, size, success, error, filled) ==
    [kind |-> "returned", ops |-> ops, size |-> size, success |-> success,
     error |-> error, filled |-> filled]
SellRaise(ops, size) ==
    [kind |-> "raised", ops |-> ops, size |-> size, success |-> FALSE,
     error |-> "exception", filled |-> 0]

\* emergency_sell(token_id, shares, dry_run), lines 78-143, with shares =
\* amount / 1_000_000: the calls it makes on the venue, in order, and what it
\* returns.  Orders are numbered by the call that placed them: 1 initial,
\* 2 retry, 3 panic.
emergency_sell(amount, dry_run, v) ==
    LET size == Round(amount, 100000)
        first == IF v.p1 = "id" THEN 1 ELSE 2
        placing == IF v.p1 = "id"
                   THEN << PlaceOp(1, SellPrice(v.best_bid, SELL_AGGRESSION), size, v.p1) >>
                   ELSE << PlaceOp(1, SellPrice(v.best_bid, SELL_AGGRESSION), size, v.p1),
                           PlaceOp(2, SellPrice(v.best_bid, RETRY_AGGRESSION), size, v.p2) >>
        filled1 == SizeMatched(v.f1, size)
        filled2 == SizeMatched(v.f2, size)
        waited == placing \o << FillOp(first, filled1) >>
        panic == waited \o cancel_order(first)
                   \o << PlaceOp(3, SellPrice(v.best_bid, PANIC_AGGRESSION), size, v.p3) >>
    IN IF v.book = "raises" THEN SellReturn(<< >>, size, FALSE, "exception", 0)
       ELSE IF v.best_bid < 2 THEN SellReturn(<< >>, size, FALSE, "no_bid", 0)
       ELSE IF size < 1 THEN SellReturn(<< >>, size, FALSE, "size_too_small", 0)
       ELSE IF dry_run THEN SellReturn(<< >>, size, TRUE, "dry_run", 0)
       ELSE IF v.p1 = "raises"
            THEN SellRaise(<< PlaceOp(1, SellPrice(v.best_bid, SELL_AGGRESSION), size, v.p1) >>,
                           size)
       ELSE IF v.p1 # "id" /\ v.p2 = "raises" THEN SellRaise(placing, size)
       ELSE IF v.p1 # "id" /\ v.p2 # "id"
            THEN SellReturn(placing, size, FALSE, "order_failed", 0)
       ELSE IF filled1 >= 10 THEN SellReturn(waited, size, TRUE, "", filled1)
       ELSE IF v.p3 = "raises" THEN SellRaise(panic, size)
       ELSE IF v.p3 # "id" THEN SellReturn(panic, size, FALSE, "", filled1)
       ELSE IF filled2 >= 10
            THEN SellReturn(panic \o << FillOp(3, filled2) >>, size, TRUE, "", filled2)
       ELSE SellReturn(panic \o << FillOp(3, filled2) >> \o << CancelOp(3) >>,
                       size, FALSE, "", filled2)

\* the orders of a call that are on the venue's book after its first k calls:
\* a placed order stays there until it is cancelled or matched in full
RECURSIVE OpenOrders(_, _, _)
OpenOrders(ops, k, size) ==
    IF k = 0 THEN {}
    ELSE LET before == OpenOrders(ops, k - 1, size)
             o == ops[k]
         IN IF o.op = "place_limit_sell"
            THEN IF o.placed THEN before \cup {o.n} ELSE before
            ELSE IF o.op = "cancel_order" THEN before \ {o.n}
            ELSE IF o.filled >= 10 * size THEN before \ {o.n} ELSE before

\* ---- run ---------------------------------------------------------------------
\* what the run has around it: the fill kind of every block of the chain, the
\* heads get_latest_block may report, the blocks whose get_logs may fail, the
\* answers of the venue, whether the alert file and the state file can be
\* written, and the flags of the command line
WdEnv(chain, heads, flaky, venues, writes, saves, dry_run, no_sell) ==
    [chain |-> chain, heads |-> heads, flaky |-> flaky, venues |-> venues,
     writes |-> writes, saves |-> saves, dry_run |-> dry_run, no_sell |-> no_sell]

\* lines 218-264: what the body of `for fill in fills` does for one fill under
\* the venue answers v and an alert file that can be written or not: the
\* emergency_sell calls made, the alert records written, and whether an
\* Exception left the body
ProcessFill(fill, dry_run, no_sell, v, write_ok) ==
    LET counterparty == get_counterparty(fill, PROXY_ADDRESS)
        we_take == AddrLower(fill.taker) = AddrLower(PROXY_ADDRESS)
        token_to_sell == IF we_take THEN fill.maker_asset_id ELSE fill.taker_asset_id
        amount == IF we_take THEN fill.maker_amount ELSE fill.taker_amount
        sells == ~no_sell /\ token_to_sell # "" /\ amount > 0
        result == emergency_sell(amount, dry_run, v)
        call == [tx_hash |-> fill.tx_hash, block |-> fill.block,
                 ops |-> result.ops, size |-> result.size, kind |-> result.kind,
                 success |-> result.success, error |-> result.error]
        record == [tx_hash |-> fill.tx_hash, block |-> fill.block, sold |-> sells]
    IN IF counterparty = None \/ ~is_blacklisted(counterparty)
       THEN [sells |-> << >>, alerts |-> << >>, raised |-> FALSE]
       ELSE IF sells /\ result.kind = "raised"
            THEN [sells |-> << call >>, alerts |-> << >>, raised |-> TRUE]
       ELSE [sells |-> IF sells THEN << call >> ELSE << >>,
             alerts |-> IF write_ok THEN << record >> ELSE << >>,
             raised |-> ~write_ok]

\* lines 205-213: get_latest_block; no new block: sleep and start over; else
\* the batch from_block .. to_block is set up.  An Exception of the call is
\* logged by line 275 and the loop starts over.
WdPoll ==
    /\ wd_pc = "loop"
    /\ \E h \in wd_env.heads, rpc_ok \in BOOLEAN :
         /\ h >= wd_head
         /\ wd_head' = h
         /\ IF ~rpc_ok
            THEN /\ wd_errors < MaxWdErrors
                 /\ wd_errors' = wd_errors + 1
                 /\ UNCHANGED <<wd_pc, wd_to, wd_block>>
            ELSE IF h <= last_block
                 THEN UNCHANGED <<wd_pc, wd_to, wd_block, wd_errors>>
                 ELSE /\ wd_block' = last_block + 1
                      /\ wd_to' = Min(h, last_block + 1 + MAX_BLOCKS_PER_POLL - 1)
                      /\ wd_pc' = "batch"
                      /\ UNCHANGED wd_errors
    /\ UNCHANGED <<wd_env, last_block, wd_alerts, wd_sells, wd_checked, wd_state,
                   outsideWatch>>

\* lines 215-264: one block of the batch: its fills are fetched and each is
\* handled; an Exception leaves the batch for line 275 and, after the sleep,
\* the loop starts over with last_block as it was
WdBlock ==
    /\ wd_pc = "batch"
    /\ wd_block <= wd_to
    /\ \E logs_ok \in (IF wd_block \in wd_env.flaky THEN BOOLEAN ELSE {TRUE}),
          v \in wd_env.venues, write_ok \in wd_env.writes :
         LET fills == get_fills_for_address(wd_env.chain, wd_block, PROXY_ADDRESS, logs_ok)
             out == IF fills = << >>
                    THEN [sells |-> << >>, alerts |-> << >>, raised |-> FALSE]
                    ELSE ProcessFill(fills[1], wd_env.dry_run, wd_env.no_sell, v, write_ok)
         IN /\ out.raised => wd_errors < MaxWdErrors
            /\ wd_sells' = wd_sells \o out.sells
            /\ wd_alerts' = wd_alerts \o out.alerts
            /\ wd_checked' = IF logs_ok THEN wd_checked \cup {wd_block} ELSE wd_checked
            /\ IF out.raised
               THEN /\ wd_pc' = "loop"
                    /\ wd_errors' = wd_errors + 1
                    /\ UNCHANGED wd_block
               ELSE /\ wd_block' = wd_block + 1
                    /\ UNCHANGED <<wd_pc, wd_errors>>
    /\ UNCHANGED <<wd_env, wd_head, last_block, wd_to, wd_state, outsideWatch>>

\* lines 266-269: the batch is done: the cursor moves to to_block and the
\* state is saved.  open(STATE_FILE, "w") empties the file before json.dump
\* writes it, so a save that raises leaves the old state or none (last_block
\* read back as 0); its Exception is logged by line 275.
WdCommit ==
    /\ wd_pc = "batch"
    /\ wd_block > wd_to
    /\ last_block' = wd_to
    /\ \E save_ok \in wd_env.saves :
         IF save_ok
         THEN /\ wd_state' = wd_to
              /\ UNCHANGED wd_errors
         ELSE /\ wd_errors < MaxWdErrors
              /\ wd_errors' = wd_errors + 1
              /\ wd_state' \in {wd_state, 0}
    /\ wd_pc' = "loop"
    /\ UNCHANGED <<wd_env, wd_head, wd_to, wd_block, wd_alerts, wd_sells, wd_checked,
                   outsideWatch>>

\* lines 271-274: KeyboardInterrupt: the state is saved and run ends
WdInterrupt ==
    /\ wd_pc \in {"loop", "batch"}
    /\ wd_state' = last_block
    /\ wd_pc' = "stopped"
    /\ UNCHANGED <<wd_env, wd_head, last_block, wd_to, wd_block, wd_alerts, wd_sells,
                   wd_checked, wd_errors, outsideWatch>>

NextWatch == WdPoll \/ WdBlock \/ WdCommit \/ WdInterrupt

(***************************************************************************)
(* Initial states and specifications                                       *)
(***************************************************************************)
\* the detector after __init__, the feed task created (line 420)
DetFresh ==
    /\ window = NoWindow
    /\ start_price = NoPrice
    /\ history = << >>
    /\ last_alert_time = EmptyDict
    /\ alerts = << >>
    /\ alert_count = 0
    /\ trade_count = 0
    /\ alert_log = << >>
    /\ orders = 0
    /\ polls = 0
    /\ fails = 0
    /\ appended = << >>
    /\ cancel_requested = FALSE
    /\ feed_running = TRUE

\* the detector when run() enters its while loop
DetStart ==
    /\ pc = "top"
    /\ DetFresh

\* the bus after __init__
BusStart ==
    /\ subscribers = << >>
    /\ socket_clients = << >>
    /\ lock = None
    /\ bus_file = << >>
    /\ bus_stdout = << >>
    /\ cb_calls = [cb \in Callbacks |-> << >>]
    /\ call_log = << >>
    /\ client_rx = [c \in Clients |-> << >>]
    /\ webhook_posts = << >>
    /\ bus_errors = {}
    /\ closed = {}
    /\ tpc = [t \in Emitters |-> "idle"]
    /\ tidx = [t \in Emitters |-> 1]
    /\ tdead = [t \in Emitters |-> << >>]
    /\ tried = [t \in Emitters |-> {}]
    /\ accepted = 0
    /\ sub_ops = 0

\* the watchdog not started: no chain, an empty alert file
WatchStart ==
    /\ wd_env = WdEnv([b \in {} |-> "empty"], {}, {}, {}, {}, {}, FALSE, FALSE)
    /\ wd_pc = "stopped"
    /\ wd_head = 0
    /\ last_block = 0
    /\ wd_to = 0
    /\ wd_block = 0
    /\ wd_alerts = << >>
    /\ wd_sells = << >>
    /\ wd_checked = {}
    /\ wd_state = 0
    /\ wd_errors = 0

\* NonceStats() with no event on file
NonceStart ==
    /\ nonce_events = << >>
    /\ by_address = EmptyDict
    /\ nonce_alerts = << >>
    /\ nonce_file = << >>

Env(books, lats, delays, maxTicks, maxFails, maxTime, windowLen, trade, feed, logOks) ==
    [books |-> books, lats |-> lats, delays |-> delays, maxTicks |-> maxTicks,
     maxFails |-> maxFails, maxTime |-> maxTime, windowLen |-> windowLen,
     trade |-> trade, feed |-> feed, logOks |-> logOks]

\* the detector under a venue serving DetBooks, with jitter in every clock read
InitDet ==
    /\ NonceStart
    /\ WatchStart
    /\ env = Env(DetBooks, 0..MaxLatency, {0, MaxDelay}, MaxTicks, MaxFails, MaxTime,
                 WindowLen, FALSE, {NoPrice, 50000}, BOOLEAN)
    /\ clock \in {0, StartClock}
    /\ DetStart
    /\ bus_cfg = BusConfig(TRUE, FALSE, FALSE, None)
    /\ BusStart

\* the detector polling every POLL_INTERVAL for more than HISTORY_SIZE ticks
HistTicks == HISTORY_SIZE + 2 * MaxExtra
HistWindowLen == POLL_INTERVAL * (HISTORY_SIZE + MaxExtra) + 4
\* a window of a few ticks
ShortWindowLen == 10

InitHist ==
    /\ NonceStart
    /\ WatchStart
    /\ \E len \in {ShortWindowLen, HistWindowLen} :
         env = Env({CalmBook}, {0}, {0}, HistTicks, MaxFails,
                   HistWindowLen + POLL_INTERVAL * MaxExtra + 4,
                   len, FALSE, {50000}, {TRUE})
    /\ clock = 0
    /\ DetStart
    /\ bus_cfg = BusConfig(TRUE, FALSE, FALSE, None)
    /\ BusStart

InitBus ==
    /\ NonceStart
    /\ WatchStart
    /\ env = Env({CalmBook}, {0}, {0}, 0, 0, 0, WindowLen, FALSE, {50000}, {TRUE})
    /\ clock = 0
    /\ DetStart
    /\ bus_cfg \in BusConfigs
    /\ BusStart

\* a bus without socket server on which subscribe(cb_ok), subscribe(cb_raises),
\* subscribe(cb_ok) have returned before the first emit
RegisteredTwice == <<"cb_ok", "cb_raises", "cb_ok">>

InitSubs ==
    /\ NonceStart
    /\ WatchStart
    /\ env = Env({CalmBook}, {0}, {0}, 0, 0, 0, WindowLen, FALSE, {50000}, {TRUE})
    /\ clock = 0
    /\ DetStart
    /\ bus_cfg = BusConfig(TRUE, TRUE, FALSE, "url")
    /\ subscribers = RegisteredTwice
    /\ socket_clients = << >>
    /\ lock = None
    /\ bus_file = << >>
    /\ bus_stdout = << >>
    /\ cb_calls = [cb \in Callbacks |-> << >>]
    /\ call_log = << >>
    /\ client_rx = [c \in Clients |-> << >>]
    /\ webhook_posts = << >>
    /\ bus_errors = {}
    /\ closed = {}
    /\ tpc = [t \in Emitters |-> "idle"]
    /\ tidx = [t \in Emitters |-> 1]
    /\ tdead = [t \in Emitters |-> << >>]
    /\ tried = [t \in Emitters |-> {}]
    /\ accepted = 0
    /\ sub_ops = 0

\* the detector under a venue whose quotes stay put while the depth moves
DepthTicks == DEPTH_DROP_WINDOW + 2

InitDepth ==
    /\ NonceStart
    /\ WatchStart
    /\ env = Env(DepthBooks, {0}, {0}, DepthTicks, MaxFails, MaxTime, WindowLen,
                 FALSE, {50000}, {TRUE})
    /\ clock = StartClock
    /\ DetStart
    /\ bus_cfg = BusConfig(TRUE, FALSE, FALSE, None)
    /\ BusStart

\* the detector, trading enabled, under a venue serving SparseBooks and a
\* feed whose price at window start may be 0.0
SparseTicks == DEPTH_DROP_WINDOW + 1

InitSparse ==
    /\ NonceStart
    /\ WatchStart
    /\ env = Env(SparseBooks, {0}, {0}, SparseTicks, MaxFails, MaxTime, WindowLen,
                 TRUE, {0, 50000}, {TRUE})
    /\ clock = StartClock
    /\ DetStart
    /\ bus_cfg = BusConfig(TRUE, FALSE, FALSE, None)
    /\ BusStart

\* the detector under a venue serving DetBooks, every clock read on time
SteadyTicks == DEPTH_DROP_WINDOW + 1

InitSteady ==
    /\ NonceStart
    /\ WatchStart
    /\ env = Env(DetBooks, {0}, {0}, SteadyTicks, MaxFails, MaxTime, WindowLen,
                 FALSE, {50000}, {TRUE})
    /\ clock \in {0, StartClock}
    /\ DetStart
    /\ bus_cfg = BusConfig(TRUE, FALSE, FALSE, None)
    /\ BusStart

\* the detector under a venue serving RuleBooks, the start price 50000 or 0.0
RuleTicks == 3

InitRules ==
    /\ NonceStart
    /\ WatchStart
    /\ env = Env(RuleBooks, {0}, {0}, RuleTicks, MaxFails, MaxTime, WindowLen,
                 FALSE, {0, 50000}, {TRUE})
    /\ clock = StartClock
    /\ DetStart
    /\ bus_cfg = BusConfig(TRUE, FALSE, FALSE, None)
    /\ BusStart

\* the detector under a venue serving SprBooks
InitSpread ==
    /\ NonceStart
    /\ WatchStart
    /\ env = Env(SprBooks, {0}, {0}, RuleTicks, MaxFails, MaxTime, WindowLen,
                 FALSE, {50000}, {TRUE})
    /\ clock = StartClock
    /\ DetStart
    /\ bus_cfg = BusConfig(TRUE, FALSE, FALSE, None)
    /\ BusStart

\* the detector under a venue that serves WideBook on every tick, so that
\* from the third snapshot of a window on every tick has a DIVERGENCE_UP_CHEAP
\* candidate; the poll loop keeps being scheduled
CoolTicks == 16
CoolTime == 100

InitCool ==
    /\ NonceStart
    /\ WatchStart
    /\ env = Env({WideBook}, {0}, {0}, CoolTicks, MaxFails, CoolTime, WindowLen,
                 FALSE, {50000}, {TRUE})
    /\ clock \in {0, StartClock}
    /\ DetStart
    /\ bus_cfg = BusConfig(TRUE, FALSE, FALSE, None)
    /\ BusStart

\* run() from its first line, with a shutdown request at any moment
RunTicks == 2

InitRun ==
    /\ NonceStart
    /\ WatchStart
    /\ env = Env({CalmBook}, {0}, {0}, RunTicks, MaxFails, MaxTime, WindowLen,
                 FALSE, {50000}, {TRUE})
    /\ clock = 0
    /\ pc = "startup"
    /\ DetFresh
    /\ bus_cfg = BusConfig(TRUE, FALSE, FALSE, None)
    /\ BusStart

SpecDet == InitDet /\ [][NextDet]_vars
SpecHist == InitHist /\ [][NextDet]_vars
SpecSparse == InitSparse /\ [][NextDet]_vars
SpecSteady == InitSteady /\ [][NextDet]_vars
SpecRules == InitRules /\ [][NextDet]_vars
SpecSpread == InitSpread /\ [][NextDet]_vars
SpecCool == InitCool /\ [][NextDet]_vars /\ WF_vars(NextDet)
SpecDepth == InitDepth /\ [][NextDet]_vars
SpecBus == InitBus /\ [][NextBus]_vars
\* the event loop keeps running the task
SpecRun == InitRun /\ [][NextRun]_vars /\ WF_vars(RunTask)
SpecSubs == InitSubs /\ [][NextSubs]_vars

\* a bus without socket server on which subscribe(cb_ok) and the subscribe of
\* one callback that calls back into the bus have returned before the first
\* emit
InitReenter ==
    /\ NonceStart
    /\ WatchStart
    /\ env = Env({CalmBook}, {0}, {0}, 0, 0, 0, WindowLen, FALSE, {50000}, {TRUE})
    /\ clock = 0
    /\ DetStart
    /\ bus_cfg = BusConfig(TRUE, TRUE, FALSE, "url")
    /\ subscribers \in {<<"cb_ok", r>> : r \in ReentrantCallbacks}
    /\ socket_clients = << >>
    /\ lock = None
    /\ bus_file = << >>
    /\ bus_stdout = << >>
    /\ cb_calls = [cb \in Callbacks \cup ReentrantCallbacks |-> << >>]
    /\ call_log = << >>
    /\ client_rx = [c \in Clients |-> << >>]
    /\ webhook_posts = << >>
    /\ bus_errors = {}
    /\ closed = {}
    /\ tpc = [t \in Emitters |-> "idle"]
    /\ tidx = [t \in Emitters |-> 1]
    /\ tdead = [t \in Emitters |-> << >>]
    /\ tried = [t \in Emitters |-> {}]
    /\ accepted = 0
    /\ sub_ops = 0

\* every thread that can take a step takes one in the end
SpecReenter == InitReenter /\ [][NextReenter]_vars /\ WF_vars(NextReenter)

\* the nonce monitor alone
InitNonce ==
    /\ NonceStart
    /\ WatchStart
    /\ env = Env({CalmBook}, {0}, {0}, 0, 0, 0, WindowLen, FALSE, {50000}, {TRUE})
    /\ clock = 0
    /\ DetStart
    /\ bus_cfg = BusConfig(TRUE, FALSE, FALSE, None)
    /\ BusStart

SpecNonce == InitNonce /\ [][NextNonce]_vars

\* ---- the watchdog ---------------------------------------------------------
\* the blocks after the one the watchdog starts from
Blocks == (StartBlock + 1)..(StartBlock + HeadSpan)

\* a chain with a fill of each kind in the first blocks after the start
BusyChain ==
    [b \in Blocks |->
        IF b = StartBlock + 1 THEN "bad_we_take"
        ELSE IF b = StartBlock + 2 THEN "bad_we_make"
        ELSE IF b = StartBlock + 3 THEN "clean"
        ELSE IF b = StartBlock + 4 THEN "foreign"
        ELSE IF b = StartBlock + 5 THEN "bad_short"
        ELSE "empty"]

\* a chain whose only fill is in the first block after the start
OneFillChain(kind) == [b \in Blocks |-> IF b = StartBlock + 1 THEN kind ELSE "empty"]

\* the venue takes the first order and matches it in full; or its first
\* place_limit_sell raises
SoldAnswer == VenueAnswer("ok", 40, "id", "id", "id", FullFill, FullFill)
RaisingAnswer == VenueAnswer("ok", 40, "raises", "id", "id", FullFill, FullFill)

\* the ways the venue can answer one emergency_sell: the book query raises;
\* there is no bid or one of 0.01; or the best bid is 0.40 and each placement
\* gives an id, None or an Exception and each order is reported without a
\* fill record, matched for 0.05 or 0.10, or matched in full
PlaceAnswers == {"id", "none", "raises"}
FillAnswers == {NoFill, 5, 10, FullFill}
Venues ==
    {VenueAnswer("raises", 40, "id", "id", "id", FullFill, FullFill)}
    \cup {VenueAnswer("ok", best_bid, "id", "id", "id", FullFill, FullFill) :
            best_bid \in {0, 1}}
    \cup {VenueAnswer("ok", 40, p1, p2, p3, f1, f2) :
            p1 \in PlaceAnswers, p2 \in PlaceAnswers, p3 \in PlaceAnswers,
            f1 \in FillAnswers, f2 \in FillAnswers}

\* run after lines 186-201 with no state file: last_block is the head it read
WatchRunning(e) ==
    /\ wd_env = e
    /\ wd_pc = "loop"
    /\ wd_head = StartBlock
    /\ last_block = StartBlock
    /\ wd_to = StartBlock
    /\ wd_block = StartBlock
    /\ wd_alerts = << >>
    /\ wd_sells = << >>
    /\ wd_checked = {}
    /\ wd_state = 0
    /\ wd_errors = 0

\* the watchdog on the busy chain: the head moves by one block, by a few and
\* by more than MAX_BLOCKS_PER_POLL; the log query of one block may fail, and
\* so may a sell, the alert write and the state save
InitWatch ==
    /\ NonceStart
    /\ env = Env({CalmBook}, {0}, {0}, 0, 0, 0, WindowLen, FALSE, {50000}, {TRUE})
    /\ clock = 0
    /\ DetStart
    /\ bus_cfg = BusConfig(TRUE, FALSE, FALSE, None)
    /\ BusStart
    /\ \E no_sell \in BOOLEAN :
         WatchRunning(WdEnv(BusyChain,
                            {StartBlock, StartBlock + 1, StartBlock + 2, StartBlock + 5,
                             StartBlock + HeadSpan},
                            {StartBlock + 2}, {SoldAnswer, RaisingAnswer},
                            BOOLEAN, BOOLEAN, FALSE, no_sell))

SpecWatch == InitWatch /\ [][NextWatch]_vars

\* the watchdog on a chain with one blacklisted fill, under every answer of
\* the venue, live and with --dry-run
InitSell ==
    /\ NonceStart
    /\ env = Env({CalmBook}, {0}, {0}, 0, 0, 0, WindowLen, FALSE, {50000}, {TRUE})
    /\ clock = 0
    /\ DetStart
    /\ bus_cfg = BusConfig(TRUE, FALSE, FALSE, None)
    /\ BusStart
    /\ \E kind \in {"bad_we_take", "bad_dust"}, dry_run \in BOOLEAN :
         WatchRunning(WdEnv(OneFillChain(kind), {StartBlock, StartBlock + 1}, {}, Venues,
                            {TRUE}, {TRUE}, dry_run, FALSE))

SpecSell == InitSell /\ [][NextWatch]_vars
Spec == SpecDet

(***************************************************************************)
(* Claims                                                                  *)
(***************************************************************************)
Before(q, a, b) == \E i, j \in 1..Len(q) : i < j /\ q[i] = a /\ q[j] = b

\* C1: any two admitted alerts of one type carry timestamps at least
\* ALERT_COOLDOWN apart.
C1_AdmittedTimestampsApart ==
    \A i, j \in 1..Len(alerts) :
        (i < j /\ alerts[i].alert_type = alerts[j].alert_type)
            => alerts[j].ts - alerts[i].ts >= ALERT_COOLDOWN

\* C2: in every poll, a candidate is admitted (it joins detector.alerts and its
\* type's last-fired time is recorded) exactly when its type has no recorded
\* last-fired time or at least ALERT_COOLDOWN has passed since then on the
\* clock the gate reads; the first candidate of a type is admitted at any clock.
C2_AdmittedIffNoRecordOrCooled ==
    [][polls' = polls + 1 =>
         LET snap == history'[Len(history')]
             cands == Candidates(snap, history, start_price)
             fresh == {alerts'[k] : k \in (Len(alerts) + 1)..Len(alerts')}
         IN \A i \in 1..Len(cands) :
                LET T == cands[i].alert_type
                IN (cands[i] \in fresh /\ T \in DOMAIN last_alert_time')
                       <=> (\/ T \notin DOMAIN last_alert_time
                            \/ clock' - last_alert_time[T] >= ALERT_COOLDOWN)]_vars

\* C3: the history never exceeds HISTORY_SIZE entries and is always the last
\* min(n, HISTORY_SIZE) of the n snapshots appended since the last clear, in
\* append order: after N + k appends its length is N and the k oldest are gone.
C3_HistoryIsLastN ==
    /\ Len(history) <= HISTORY_SIZE
    /\ Len(history) = Min(Len(appended), HISTORY_SIZE)
    /\ \A i \in 1..Len(history) :
           history[i] = appended[Len(appended) - Len(history) + i]

\* N + MaxExtra snapshots were appended and the oldest MaxExtra are gone
C3_Witness ==
    /\ Len(appended) = HISTORY_SIZE + MaxExtra
    /\ Len(history) = HISTORY_SIZE
    /\ history[1] = appended[MaxExtra + 1]
    /\ history[1].ts > appended[1].ts

\* C4: whenever the poll loop loads a window (the first, or a replacement on
\* expiry) the history is empty right after that step.
C4_EmptyAfterLoad ==
    [][window' # window => Len(history') = 0]_vars

\* a later window has just replaced one under which snapshots were taken
C4_Witness ==
    /\ pc = "poll"
    /\ window # NoWindow
    /\ window.slug > 0
    /\ polls >= DEPTH_DROP_WINDOW
    /\ history = << >>

\* C5: every snapshot in the history was captured under the window that is
\* loaded now, so the previous and the W-back snapshot a detector compares
\* with belong to the window of the snapshot being analyzed.
C5_HistoryOfLoadedWindow ==
    \A i \in 1..Len(history) : window # NoWindow /\ history[i].win = window.slug

\* a replacement window with enough history for every detector to run
C5_Witness ==
    /\ window # NoWindow
    /\ window.slug > 0
    /\ Len(history) >= DEPTH_DROP_WINDOW
    /\ pc = "poll"

\* C6: every admitted alert is emitted through the AlertBus: once an alert has
\* been admitted, an emit call has been made on the bus.
C6_AdmittedAlertsEmitted ==
    Len(alerts) > 0 => \E t \in Emitters : tpc[t] # "idle"

\* C7: an emit call in which the file write, subscribers, socket sends or the
\* webhook POST fail still deals with every enabled destination and returns;
\* emit ends otherwise only when the unguarded print to stdout raises.
EmitRunning ==
    {"idle", "stdout", "subs_lock", "subs", "sock_check", "sock_lock", "send", "webhook"}

EnabledDestinations ==
    (IF bus_cfg.file THEN {"file"} ELSE {})
    \cup {"subscribers", "socket"}
    \cup (IF bus_cfg.webhook_url # None THEN {"webhook"} ELSE {})

C8_NoLockDuringDelivery ==
    \A t \in Emitters :
        (\/ tpc[t] = "subs" /\ tidx[t] <= Len(subscribers)
         \/ tpc[t] = "send" /\ tidx[t] <= Len(socket_clients)
         \/ tpc[t] = "webhook")
            => lock # t

\* C9: an emit call that is about to read or write the subscriber list or the
\* client list holds the bus lock.
C9_ListsAccessedUnderLock ==
    \A t \in Emitters : tpc[t] \in {"subs", "sock_check", "send"} => lock = t

\* C10: clients that stay connected, the alert file and the subscribers all
\* see any two alerts in the same order.
DeliveryLogs ==
    {bus_file} \cup {client_rx[c] : c \in Clients \ closed} \cup {cb_calls[cb] : cb \in Callbacks}

C10_OneEmissionOrder ==
    \A a, b \in Emitters : \A q1, q2 \in DeliveryLogs :
        ~(Before(q1, a, b) /\ Before(q2, b, a))

Range(q) == {q[i] : i \in 1..Len(q)}

\* C11: a socket client is written to only by an emit call that is in its
\* broadcast loop and finds the client in the client list; accepting a
\* connection sends it nothing (no replay); and an emit call that finds the
\* client list empty goes on to the webhook step with no error and no write.
C11_OnlyClientsInSetAreWritten ==
    [][/\ \A c \in Clients :
              client_rx'[c] # client_rx[c] =>
                  /\ c \in Range(socket_clients)
                  /\ \E t \in Emitters :
                         /\ tpc[t] = "send"
                         /\ socket_clients[tidx[t]] = c
                         /\ client_rx'[c] = Append(client_rx[c], t)
       /\ accepted' # accepted => client_rx' = client_rx
       /\ \A t \in Emitters :
              (tpc[t] = "sock_check" /\ socket_clients = << >> /\ tpc'[t] # tpc[t]) =>
                  /\ tpc'[t] = "webhook"
                  /\ bus_errors' = bus_errors
                  /\ client_rx' = client_rx
                  /\ socket_clients' = socket_clients]_vars

\* an emit call found no client and returned; a client connected since then
\* has got the other emit call's alert and not this one
C11_Witness ==
    \E t, u \in Emitters : \E c \in Clients :
        /\ tpc[t] = "returned"
        /\ tdead[t] = << >>
        /\ \A d \in Clients : t \notin Range(client_rx[d])
        /\ c \in Range(socket_clients)
        /\ c \notin closed
        /\ u \in Range(client_rx[c])

\* C12: when an emit call leaves its broadcast loop, every client whose write
\* failed in that loop is out of the client list and every other client of
\* the list has received the alert and is still in the list; no emit call
\* writes to a client that failed in a broadcast that is over.
C12_DeadClientRemoved ==
    [][\A t \in Emitters :
           /\ (tpc[t] = "send" /\ tpc'[t] = "webhook") =>
                  \A c \in Range(socket_clients) :
                      IF c \in Range(tdead[t])
                      THEN c \notin Range(socket_clients')
                      ELSE c \in Range(socket_clients') /\ t \in Range(client_rx'[c])
           /\ (tpc[t] = "send" /\ tidx'[t] = tidx[t] + 1) =>
                  \A u \in Emitters :
                      tpc[u] \in {"webhook", "returned"} =>
                          socket_clients[tidx[t]] \notin Range(tdead[u])]_vars

\* client d failed in t's broadcast and was removed while client c got the
\* alert; the later emit call u wrote to c alone and met no failure
C12_Witness ==
    \E t, u \in Emitters : \E d, c \in Clients :
        /\ t # u
        /\ d < c
        /\ tpc[t] = "returned"
        /\ tpc[u] = "returned"
        /\ tdead[t] = << d >>
        /\ tdead[u] = << >>
        /\ d \notin Range(socket_clients)
        /\ c \in Range(socket_clients)
        /\ t \in Range(client_rx[c])
        /\ u \in Range(client_rx[c])
        /\ u \notin Range(client_rx[d])

\* the callbacks emit call t has invoked, in the order of the invocations
CallbacksCalledBy(log, t) ==
    LET mine == SelectSeq(log, LAMBDA e : e[2] = t)
    IN [i \in 1..Len(mine) |-> mine[i][1]]

\* C13: when an emit call leaves its subscriber loop it has invoked exactly
\* the subscriber list, entry by entry and in list order, whether or not a
\* callback raised; callbacks are invoked only inside an emit call's loop; and
\* an emit call in which a subscriber raised still returns having dealt with
\* the socket clients and the webhook.
C13_SubscribersCalledInOrder ==
    [][/\ \A t \in Emitters :
              /\ (tpc[t] = "subs" /\ tpc'[t] = "sock_check") =>
                     CallbacksCalledBy(call_log', t) = subscribers
              /\ (tpc'[t] = "returned" /\ <<"subscriber", t>> \in bus_errors') =>
                     /\ "socket" \in tried'[t]
                     /\ bus_cfg.webhook_url # None => "webhook" \in tried'[t]
       /\ call_log' # call_log =>
              \E t \in Emitters :
                  /\ tpc[t] = "subs"
                  /\ lock = t
                  /\ call_log' = Append(call_log, <<subscribers[tidx[t]], t>>)]_vars

\* an emit call whose first subscriber raised went on to invoke the second,
\* wrote to a socket client, made its webhook POST and returned
C13_Witness ==
    \E t \in Emitters :
        /\ tpc[t] = "returned"
        /\ CallbacksCalledBy(call_log, t) = <<"cb_raises", "cb_ok">>
        /\ <<"subscriber", t>> \in bus_errors
        /\ \E c \in Clients : t \in Range(client_rx[c])
        /\ t \in Range(webhook_posts)

\* C14: unsubscribe(cb) leaves the subscriber list without any entry equal to
\* cb, the other entries in their order (so nothing changes when cb is not
\* registered), and a callback is invoked only while it is in the list: once
\* unsubscribe(cb) has returned no emit invokes cb.
C14_UnsubscribeRemovesEveryRegistration ==
    [][/\ \A cb \in Callbacks :
              unsubscribe(cb) =>
                  /\ subscribers' = SelectSeq(subscribers, LAMBDA x : x # cb)
                  /\ cb \notin Range(subscribers')
                  /\ cb \notin Range(subscribers) => subscribers' = subscribers
       /\ \A cb \in Callbacks :
              cb_calls'[cb] # cb_calls[cb] => cb \in Range(subscribers)]_vars

\* cb_ok, registered twice, was invoked twice by one emit call; after
\* unsubscribe(cb_ok) the other emit call invoked cb_raises alone
C14_Witness ==
    \E t, u \in Emitters :
        /\ sub_ops >= 1
        /\ subscribers = <<"cb_raises">>
        /\ CallbacksCalledBy(call_log, u) = RegisteredTwice
        /\ tpc[t] = "returned"
        /\ CallbacksCalledBy(call_log, t) = <<"cb_raises">>

\* C15: the alert file only grows, one whole record at a time: a step leaves
\* it unchanged or appends the record of the emit call that is writing; an
\* emit call whose write did not fail has exactly one record in the file, and
\* no emit call has more than one, however the calls interleave.
C15_AlertFileAppendOnly ==
    [][/\ \/ bus_file' = bus_file
          \/ \E t \in Emitters :
                 /\ tpc[t] = "idle"
                 /\ tpc'[t] # "idle"
                 /\ bus_file' = Append(bus_file, t)
       /\ \A t \in Emitters :
              /\ Cardinality({i \in 1..Len(bus_file') : bus_file'[i] = t}) <= 1
              /\ (bus_cfg.file /\ tpc'[t] # "idle" /\ <<"file", t>> \notin bus_errors')
                     => t \in Range(bus_file')]_vars

\* every emit call has written its record before any of them went further
C15_Witness ==
    /\ Len(bus_file) = NumEmitters
    /\ \A t \in Emitters : tpc[t] = "stdout" /\ t \in Range(bus_file)

\* C16: a tick whose order-book or reference-price fetch fails changes
\* nothing: history, cooldown map, alert list, alert log, counters, orders,
\* window and start price are as before, no snapshot is counted, and the loop
\* goes to its sleep, from which the next tick fetches again.
C16_FailedFetchSkipsTick ==
    [][(pc = "poll" /\ fails' = fails + 1) =>
           /\ UNCHANGED <<history, last_alert_time, alerts, alert_count, trade_count,
                          alert_log, orders, window, start_price, polls>>
           /\ pc' = "sleep"]_vars

\* a fetch has just failed (the clock is a whole sleep past the last snapshot,
\* and no snapshot was taken on this tick) with history and alerts in place
C16_Witness ==
    /\ pc = "sleep"
    /\ fails >= 1
    /\ Len(history) >= 2
    /\ Len(alerts) >= 1
    /\ clock - history[Len(history)].ts >= POLL_INTERVAL
    /\ window # NoWindow

\* C17: a reference price that is absent, on the tick that loads a window
\* included, never ends the poll loop.
C17_AbsentPriceNeverEndsLoop ==
    start_price = NoPrice => pc # "crashed"

\* what the price-jump rule asks of a pair of consecutive snapshots for one
\* instrument: the PRICE_JUMP candidates among cands are exactly one, of the
\* stated severity, when both mids are non-zero, |mid_now - mid_prev| >= 0.10
\* and the reference moved by less than 0.05 %, and none otherwise
PriceJumpAsStated(cands, snap, prev, alert_type, now2, prev2) ==
    LET got == {i \in 1..Len(cands) : cands[i].alert_type = alert_type}
        delta2 == Abs(now2 - prev2)
        quiet == \/ prev.btc_price = 0
                 \/ Abs(snap.btc_price - prev.btc_price) * 10000 < 5 * prev.btc_price
    IN IF now2 # 0 /\ prev2 # 0 /\ delta2 >= 20 /\ quiet
       THEN /\ Cardinality(got) = 1
            /\ \A i \in got :
                   cands[i].severity = IF delta2 >= 40 THEN "CRITICAL"
                                       ELSE IF delta2 >= 30 THEN "HIGH" ELSE "MEDIUM"
       ELSE got = {}

\* C18: on every tick that has a previous snapshot in its window (the second
\* snapshot of a window included) the candidates of the engine hold, for UP
\* and for DOWN, the price-jump candidate the rule asks for.
C18_PriceJumpOnEveryPair ==
    [][(polls' = polls + 1 /\ Len(history) >= 1) =>
           LET snap == history'[Len(history')]
               prev == history[Len(history)]
               cands == Candidates(snap, history, start_price)
           IN /\ PriceJumpAsStated(cands, snap, prev, "PRICE_JUMP_UP",
                                    Mid2(snap.bid_up, snap.ask_up),
                                    Mid2(prev.bid_up, prev.ask_up))
              /\ PriceJumpAsStated(cands, snap, prev, "PRICE_JUMP_DOWN",
                                    Mid2(snap.bid_down, snap.ask_down),
                                    Mid2(prev.bid_down, prev.ask_down))]_vars

\* the sum of the four side depths of a snapshot
DepthOf(s) == s.depth_up_bids + s.depth_up_asks + s.depth_down_bids + s.depth_down_asks

\* C19: on every tick the DEPTH_DROP candidates are: exactly one when the
\* snapshot DEPTH_DROP_WINDOW ticks back exists, its total depth ref is >= 1
\* and (ref - now) / ref >= 0.40, of severity CRITICAL from 0.70, HIGH from
\* 0.55, else MEDIUM; and none otherwise.
C19_DepthDropAgainstThreeBack ==
    [][polls' = polls + 1 =>
           LET snap == history'[Len(history')]
               cands == Candidates(snap, history, start_price)
               got == {i \in 1..Len(cands) : cands[i].alert_type = "DEPTH_DROP"}
               n == Len(history)
           IN IF n < 3 THEN got = {}
              ELSE LET ref == DepthOf(history[n - 2])
                       now == DepthOf(snap)
                   IN IF ref >= 1 /\ (ref - now) * 100 >= 40 * ref
                      THEN /\ Cardinality(got) = 1
                           /\ \A i \in got :
                                  cands[i].severity =
                                      IF (ref - now) * 100 >= 70 * ref THEN "CRITICAL"
                                      ELSE IF (ref - now) * 100 >= 55 * ref THEN "HIGH"
                                      ELSE "MEDIUM"
                      ELSE got = {}]_vars

\* depths 100, 100, 100 and then 50: the fourth snapshot's DEPTH_DROP alert is
\* MEDIUM; the fifth, of depth 20 against the 100 three ticks back, is a
\* candidate again
C19_Witness ==
    /\ Len(history) = 5
    /\ \A i \in 1..3 : DepthOf(history[i]) = 100
    /\ DepthOf(history[4]) = 50
    /\ DepthOf(history[5]) = 20
    /\ Len(alerts) = 1
    /\ alerts[1] = Alert(history[4].ts, "DEPTH_DROP", "MEDIUM")

\* C20: after a shutdown request run() ends, and when it has ended the price
\* feed has been stopped.
C20_ShutdownEndsRunWithFeedStopped ==
    cancel_requested ~> (pc \in RunEnded /\ ~feed_running)

\* C21: for every incrementNonce event the emitted alert is SUSPICIOUS_TIMING
\* with severity warning when the event lies in the last 30 s of its window;
\* otherwise it is NEW_EXPLOITER when no earlier event of the same caller is
\* recorded and NONCE_INCREMENT when one is.
C21_NewExploiterOnlyOnFirstEvent ==
    [][Len(nonce_events') = Len(nonce_events) + 1 =>
           LET e == nonce_events'[Len(nonce_events')]
               a == nonce_alerts'[Len(nonce_alerts')]
               seen == \E i \in 1..Len(nonce_events) : nonce_events[i].caller = e.caller
           IN /\ Len(nonce_alerts') = Len(nonce_alerts) + 1
              /\ IF e.remaining < 30
                 THEN a.code = "SUSPICIOUS_TIMING" /\ a.severity = "warning"
                 ELSE a.code = IF seen THEN "NONCE_INCREMENT" ELSE "NEW_EXPLOITER"]_vars

\* C22: every record of the alert file, parsed back, has the code, the
\* severity and the data of the alert that was emitted for it.
C22_FileRecordRoundTrip ==
    /\ Len(nonce_file) = Len(nonce_alerts)
    /\ \A i \in 1..Len(nonce_file) :
           LET parsed == json_loads(nonce_file[i])
           IN /\ PyGet(parsed, "code") = PyStr(nonce_alerts[i].code)
              /\ PyGet(parsed, "severity") = PyStr(nonce_alerts[i].severity)
              /\ PyGet(parsed, "data") = nonce_alerts[i].data

\* MaxEvents records are on file, one of them a NEW_EXPLOITER alert whose data
\* holds an int, a nested dict and floats
C22_Witness ==
    /\ Len(nonce_file) = MaxEvents
    /\ \E i \in 1..Len(nonce_file) :
           /\ nonce_alerts[i].code = "NEW_EXPLOITER"
           /\ PyGet(json_loads(nonce_file[i]), "data") =
                  NonceData(nonce_events[i].caller, nonce_events[i].remaining, i)
           /\ PyGet(PyGet(nonce_alerts[i].data, "market_window"), "seconds_remaining")
                  = PyFloat(2000)

\* C23: on every tick, with fewer than 2 entries in the history analyze is
\* called with, no detector yields a candidate and nothing is fired; with 2 or
\* more, the candidates of price-jump, volume-vanish, divergence and spread
\* are all among the tick's candidates; depth-drop yields none with fewer
\* than DEPTH_DROP_WINDOW entries and is evaluated with that many or more.
C23_DetectorsNeedTwoEntries ==
    [][polls' = polls + 1 =>
           LET snap == history'[Len(history')]
               cands == Candidates(snap, history, start_price)
               n == Len(history)
           IN /\ n < 2 => (cands = << >> /\ alerts' = alerts /\ orders' = orders
                           /\ last_alert_time' = last_alert_time)
              /\ n >= 2 =>
                    /\ Range(check_price_jump(snap, history[n])) \subseteq Range(cands)
                    /\ Range(check_volume_vanish(snap, history[n])) \subseteq Range(cands)
                    /\ Range(check_divergence(snap, start_price)) \subseteq Range(cands)
                    /\ Range(check_spread(snap, history[n])) \subseteq Range(cands)
              /\ n < 3 => \A i \in 1..Len(cands) : cands[i].alert_type # "DEPTH_DROP"
              /\ n >= 3 => Range(check_depth_drop(snap, history)) \subseteq Range(cands)
              /\ Range(SubSeq(alerts', Len(alerts) + 1, Len(alerts'))) \subseteq Range(cands)]_vars

\* four snapshots: the second lost three quarters of the first's depth on
\* every side and nothing was fired for it; the fourth did so against the
\* third and against the snapshot three back, and its alerts include a
\* volume-vanish and the depth-drop
C23_Witness ==
    /\ Len(history) = 4
    /\ DepthOf(history[1]) = 400
    /\ DepthOf(history[2]) = 100
    /\ DepthOf(history[3]) = 400
    /\ DepthOf(history[4]) = 100
    /\ history[1].ts >= ALERT_COOLDOWN
    /\ \A i \in 1..Len(alerts) : alerts[i].ts # history[2].ts
    /\ \E i \in 1..Len(alerts) :
           alerts[i] = Alert(history[4].ts, "VOLUME_VANISH_UP_BIDS", "MEDIUM")
    /\ \E i \in 1..Len(alerts) :
           alerts[i] = Alert(history[4].ts, "DEPTH_DROP", "CRITICAL")

\* the alerts a tick fires when the detector bank is given the history hist
AlertsFiredOn(snap, hist, now) ==
    FireAll([last_alert_time |-> last_alert_time, alerts |-> alerts,
             alert_count |-> alert_count, alert_log |-> alert_log],
            Candidates(snap, hist, start_price), 1, now, TRUE).alerts

\* C24: on every tick with a fetched snapshot, the history the detector bank
\* is evaluated on is the history after the append, whose newest entry is the
\* snapshot itself.
C24_AppendedBeforeEvaluation ==
    [][polls' = polls + 1 =>
           LET snap == history'[Len(history')]
           IN alerts' = AlertsFiredOn(snap, history', clock')]_vars

\* C25: a loop pass that starts without a usable window (none loaded, or the
\* loaded one expired) either finds nothing active, and then fetches no book,
\* evaluates nothing, appends nothing, fires nothing and sleeps at most 10 s
\* before the next pass, or fetches an active window and goes on to poll the
\* book in that same pass.
C25_WaitsUntilActiveWindow ==
    [][(pc = "top" /\ NeedsWindow) =>
           \/ /\ pc' = "top"
              /\ window' = window
              /\ polls' = polls
              /\ history' = history
              /\ appended' = appended
              /\ <<last_alert_time, alerts, alert_count, alert_log, trade_count, orders>>'
                     = <<last_alert_time, alerts, alert_count, alert_log, trade_count, orders>>
              /\ clock' - clock \in 1..10
           \/ /\ window' # NoWindow
              /\ window'.active
              /\ ~is_expired(window', clock')
              /\ pc' = "poll"]_vars

\* the alerts admitted by the step: what it appended to detector.alerts
Admitted == SubSeq(alerts', Len(alerts) + 1, Len(alerts'))

\* C26: on every tick a candidate of type T is admitted exactly when the
\* gate's clock read is at least ALERT_COOLDOWN after T's own recorded time
\* (0 when T has none), whatever was decided for the other candidates of the
\* tick; and the recorded time of a type none of whose candidates was
\* admitted is left as it was.
C26_AdmissionPerType ==
    [][polls' = polls + 1 =>
           LET snap == history'[Len(history')]
               cands == Candidates(snap, history, start_price)
           IN /\ \A i \in 1..Len(cands) :
                     (cands[i] \in Range(Admitted))
                         <=> (clock' - DictGet(last_alert_time, cands[i].alert_type, 0)
                                  >= ALERT_COOLDOWN)
              /\ \A t \in AlertTypes :
                     (\A i \in 1..Len(Admitted) : Admitted[i].alert_type # t)
                         => /\ (t \in DOMAIN last_alert_time') = (t \in DOMAIN last_alert_time)
                            /\ DictGet(last_alert_time', t, 0) = DictGet(last_alert_time, t, 0)]_vars

\* PRICE_JUMP_UP and PRICE_JUMP_DOWN were admitted on one tick; on the next
\* tick both mids jumped again and neither candidate was admitted, while the
\* DEPTH_DROP candidate of that tick was, and the recorded time of
\* PRICE_JUMP_UP is still that of the earlier tick
C26_Witness ==
    /\ Len(history) = 4
    /\ \E i, j \in 1..Len(alerts) :
           /\ alerts[i] = Alert(history[3].ts, "PRICE_JUMP_UP", "HIGH")
           /\ alerts[j] = Alert(history[3].ts, "PRICE_JUMP_DOWN", "HIGH")
    /\ PriceJumpFires(history[4], history[3], mid_up2(history[4]), mid_up2(history[3]))
    /\ \A i \in 1..Len(alerts) :
           alerts[i].ts = history[4].ts => alerts[i].alert_type \notin {"PRICE_JUMP_UP", "PRICE_JUMP_DOWN"}
    /\ \E i \in 1..Len(alerts) :
           alerts[i].ts = history[4].ts /\ alerts[i].alert_type = "DEPTH_DROP"
    /\ last_alert_time["PRICE_JUMP_UP"] = history[3].ts
    /\ last_alert_time["DEPTH_DROP"] = history[4].ts

\* no candidate of the sequence has one of the types
NoneOf(cands, types) == \A i \in 1..Len(cands) : cands[i].alert_type \notin types

\* C28: on every tick no division of the detector bank has a zero divisor,
\* and a detector yields no candidate when an input of its rule is zero:
\* price-jump without a reference price in either snapshot or without either
\* mid; depth-drop without depth in the reference snapshot; volume-vanish
\* on a side that had no volume; divergence without start price, reference
\* price or mid; spread without one of the four quotes.
C28_ZeroInputsAbstain ==
    [][polls' = polls + 1 =>
           LET snap == history'[Len(history')]
               cands == Candidates(snap, history, start_price)
               n == Len(history)
           IN /\ 0 \notin Divisors(snap, history, start_price, env.trade)
              /\ Range(Admitted) \subseteq Range(cands)
              /\ n >= 2 =>
                    LET prev == history[n]
                    IN /\ (prev.btc_price = 0 \/ snap.btc_price = 0)
                             => NoneOf(cands, {"PRICE_JUMP_UP", "PRICE_JUMP_DOWN"})
                       /\ (mid_up2(snap) = 0 \/ mid_up2(prev) = 0)
                             => NoneOf(cands, {"PRICE_JUMP_UP"})
                       /\ (mid_down2(snap) = 0 \/ mid_down2(prev) = 0)
                             => NoneOf(cands, {"PRICE_JUMP_DOWN"})
                       /\ (n >= DEPTH_DROP_WINDOW
                             /\ total_depth(history[n - DEPTH_DROP_WINDOW + 1]) = 0)
                             => NoneOf(cands, {"DEPTH_DROP"})
                       /\ prev.depth_up_bids = 0 => NoneOf(cands, {"VOLUME_VANISH_UP_BIDS"})
                       /\ prev.depth_up_asks = 0 => NoneOf(cands, {"VOLUME_VANISH_UP_ASKS"})
                       /\ prev.depth_down_bids = 0 => NoneOf(cands, {"VOLUME_VANISH_DOWN_BIDS"})
                       /\ prev.depth_down_asks = 0 => NoneOf(cands, {"VOLUME_VANISH_DOWN_ASKS"})
                       /\ (start_price = 0 \/ snap.btc_price = 0)
                             => NoneOf(cands, {"DIVERGENCE_UP_CHEAP", "DIVERGENCE_DOWN_CHEAP"})
                       /\ mid_up2(snap) = 0 => NoneOf(cands, {"DIVERGENCE_UP_CHEAP"})
                       /\ mid_down2(snap) = 0 => NoneOf(cands, {"DIVERGENCE_DOWN_CHEAP"})
                       /\ (snap.bid_up = 0 \/ snap.ask_up = 0 \/ prev.bid_up = 0 \/ prev.ask_up = 0)
                             => NoneOf(cands, {"SPREAD_BLOWOUT_UP"})
                       /\ (snap.bid_down = 0 \/ snap.ask_down = 0
                             \/ prev.bid_down = 0 \/ prev.ask_down = 0)
                             => NoneOf(cands, {"SPREAD_BLOWOUT_DOWN"})]_vars

GateOutcome(cands, now) ==
    LET st == FireAll([last_alert_time |-> last_alert_time, alerts |-> alerts,
                       alert_count |-> alert_count, alert_log |-> alert_log],
                      cands, 1, now, TRUE)
    IN <<Range(st.alerts), Len(st.alerts), st.last_alert_time>>

OfType(cands, t) == {i \in 1..Len(cands) : cands[i].alert_type = t}

\* one side of the volume-vanish rule as stated: exactly one candidate, HIGH
\* from 100 on and MEDIUM below, when 50 or more vanished, else none
VolumeVanishAsStated(cands, t, now_v, prev_v) ==
    IF prev_v - now_v >= 50
    THEN /\ Cardinality(OfType(cands, t)) = 1
         /\ \A i \in OfType(cands, t) :
                cands[i].severity = IF prev_v - now_v >= 100 THEN "HIGH" ELSE "MEDIUM"
    ELSE OfType(cands, t) = {}

\* C29: for every snapshot and the snapshot before it, the volume-vanish
\* detector yields for each of the four sides exactly one VOLUME_VANISH
\* candidate of that side when previous minus current volume is >= 50, HIGH
\* when it is >= 100 and MEDIUM otherwise, and none for that side when less
\* vanished; it yields nothing else, and from the third snapshot of a window
\* on these are the tick's volume-vanish candidates.
C29_VolumeVanishPerSide ==
    [][(polls' = polls + 1 /\ Len(history) >= 1) =>
           LET snap == history'[Len(history')]
               prev == history[Len(history)]
               cands == check_volume_vanish(snap, prev)
               all == Candidates(snap, history, start_price)
               sides == {"VOLUME_VANISH_UP_BIDS", "VOLUME_VANISH_UP_ASKS",
                         "VOLUME_VANISH_DOWN_BIDS", "VOLUME_VANISH_DOWN_ASKS"}
           IN /\ VolumeVanishAsStated(cands, "VOLUME_VANISH_UP_BIDS",
                                       snap.depth_up_bids, prev.depth_up_bids)
              /\ VolumeVanishAsStated(cands, "VOLUME_VANISH_UP_ASKS",
                                       snap.depth_up_asks, prev.depth_up_asks)
              /\ VolumeVanishAsStated(cands, "VOLUME_VANISH_DOWN_BIDS",
                                       snap.depth_down_bids, prev.depth_down_bids)
              /\ VolumeVanishAsStated(cands, "VOLUME_VANISH_DOWN_ASKS",
                                       snap.depth_down_asks, prev.depth_down_asks)
              /\ \A i \in 1..Len(cands) : cands[i].alert_type \in sides
              /\ Len(cands) \in 0..4
              /\ Len(history) >= 2 =>
                    {all[i] : i \in {j \in 1..Len(all) : all[j].alert_type \in sides}}
                        = Range(cands)]_vars

\* after a snapshot with 100 on every side, one with 0, 50, 51 and 100: the
\* tick's alerts are a HIGH for the UP bids and a MEDIUM for the UP asks, and
\* none for the DOWN bids, which lost 49, or the DOWN asks
C29_Witness ==
    /\ Len(history) = 3
    /\ history[2].depth_up_bids = 100
    /\ history[2].depth_up_asks = 100
    /\ history[2].depth_down_bids = 100
    /\ history[3].depth_up_bids = 0
    /\ history[3].depth_up_asks = 50
    /\ history[3].depth_down_bids = 51
    /\ \E i, j \in 1..Len(alerts) :
           /\ alerts[i] = Alert(history[3].ts, "VOLUME_VANISH_UP_BIDS", "HIGH")
           /\ alerts[j] = Alert(history[3].ts, "VOLUME_VANISH_UP_ASKS", "MEDIUM")
    /\ \A i \in 1..Len(alerts) :
           alerts[i].alert_type \notin {"VOLUME_VANISH_DOWN_BIDS", "VOLUME_VANISH_DOWN_ASKS"}

\* the mid of a snapshot's quotes, doubled: their sum, or the one quote
\* present twice, or 0
MidOfDoubled(bid, ask) ==
    IF bid # 0 /\ ask # 0 THEN bid + ask ELSE IF bid # 0 THEN 2 * bid ELSE 2 * ask

\* C30: for every snapshot with a reference price, the divergence detector
\* yields a HIGH DIVERGENCE_UP_CHEAP candidate exactly when the reference is
\* more than 0.03 % above the start price and the UP mid is non-zero and
\* below 0.35, a HIGH DIVERGENCE_DOWN_CHEAP candidate exactly when the
\* reference is more than 0.03 % below the start price and the DOWN mid is
\* non-zero and below 0.35, never both, nothing else, and nothing when the
\* start price is absent; from the third snapshot of a window on these are
\* the tick's divergence candidates.
C30_DivergenceRule ==
    [][(polls' = polls + 1 /\ history'[Len(history')].btc_price # 0) =>
           LET snap == history'[Len(history')]
               cands == check_divergence(snap, start_price)
               all == Candidates(snap, history, start_price)
               types == {"DIVERGENCE_UP_CHEAP", "DIVERGENCE_DOWN_CHEAP"}
               up2 == MidOfDoubled(snap.bid_up, snap.ask_up)
               down2 == MidOfDoubled(snap.bid_down, snap.ask_down)
               present == start_price # 0 /\ start_price # NoPrice
               up == /\ present
                     /\ (snap.btc_price - start_price) * 10000 > 3 * start_price
                     /\ up2 # 0
                     /\ up2 < 70
               down == /\ present
                       /\ (start_price - snap.btc_price) * 10000 > 3 * start_price
                       /\ down2 # 0
                       /\ down2 < 70
           IN /\ (Alert(snap.ts, "DIVERGENCE_UP_CHEAP", "HIGH") \in Range(cands)) <=> up
              /\ (Alert(snap.ts, "DIVERGENCE_DOWN_CHEAP", "HIGH") \in Range(cands)) <=> down
              /\ Len(cands) <= 1
              /\ \A i \in 1..Len(cands) :
                     cands[i].alert_type \in types /\ cands[i].severity = "HIGH"
              /\ ~present => cands = << >>
              /\ Len(history) >= 2 =>
                    {all[i] : i \in {j \in 1..Len(all) : all[j].alert_type \in types}}
                        = Range(cands)]_vars

\* under a start price of 50000, the third snapshot of the window has both
\* mids at 0.31 and the reference at 49984, 0.032 % below: the tick fired
\* DIVERGENCE_DOWN_CHEAP and nothing else
C30_Witness ==
    /\ start_price = 50000
    /\ Len(history) = 3
    /\ history[3].btc_price = 49984
    /\ mid_up2(history[3]) = 62
    /\ mid_down2(history[3]) = 62
    /\ alerts = << Alert(history[3].ts, "DIVERGENCE_DOWN_CHEAP", "HIGH") >>

\* one instrument of the spread rule as stated, in cents
SpreadAsStated(cands, t, bid, ask, prev_bid, prev_ask) ==
    IF /\ bid # 0 /\ ask # 0 /\ prev_bid # 0 /\ prev_ask # 0
       /\ prev_ask - prev_bid > 0
       /\ ask - bid >= 10
       /\ ask - bid >= 3 * (prev_ask - prev_bid)
    THEN /\ Cardinality(OfType(cands, t)) = 1
         /\ \A i \in OfType(cands, t) :
                cands[i].severity =
                    IF ask - bid >= 5 * (prev_ask - prev_bid) THEN "HIGH" ELSE "MEDIUM"
    ELSE OfType(cands, t) = {}

AdmittedOfType(t) == Cardinality(OfType(alerts, t))

\* the newest snapshot had a candidate of type DIVERGENCE_UP_CHEAP (it is at
\* least the third of its window, under a venue serving WideBook) and no alert
\* was admitted for it
DivergenceSuppressed ==
    /\ pc = "sleep"
    /\ Len(history) >= 3
    /\ check_divergence(history[Len(history)], start_price) # << >>
    /\ \A i \in 1..Len(alerts) : alerts[i].ts # history[Len(history)].ts

\* an alert of type DIVERGENCE_UP_CHEAP was admitted for the newest snapshot
DivergenceAdmitted ==
    /\ pc = "sleep"
    /\ Len(history) >= 1
    /\ Alert(history[Len(history)].ts, "DIVERGENCE_UP_CHEAP", "HIGH") \in Range(alerts)

\* the last tick after which a suppression is followed, within the ticks of
\* the run, by a tick with a candidate at or after the cooldown's expiry
CoolFrom == 4

\* C33: the time recorded for a type changes only in a step that admits an
\* alert of that type, an alert is admitted only ALERT_COOLDOWN or more after
\* the time recorded for its type, and a candidate that comes that long after
\* it is admitted; and so, with a candidate of type T on every tick, each
\* suppression of T is followed by a further admitted alert of type T.
C33_SuppressionNeverExtendsCooldown ==
    /\ [][/\ \A t \in AlertTypes :
                 (\/ (t \in DOMAIN last_alert_time') # (t \in DOMAIN last_alert_time)
                  \/ DictGet(last_alert_time', t, 0) # DictGet(last_alert_time, t, 0))
                     => \E i \in 1..Len(Admitted) : Admitted[i].alert_type = t
          /\ \A i \in 1..Len(Admitted) :
                 clock' - DictGet(last_alert_time, Admitted[i].alert_type, 0) >= ALERT_COOLDOWN
          /\ polls' = polls + 1 =>
                 LET cands == Candidates(history'[Len(history')], history, start_price)
                 IN \A i \in 1..Len(cands) :
                        clock' - DictGet(last_alert_time, cands[i].alert_type, 0)
                                >= ALERT_COOLDOWN
                            => cands[i] \in Range(Admitted)]_vars
    /\ (DivergenceSuppressed /\ polls <= CoolFrom) ~> DivergenceAdmitted

\* DIVERGENCE_UP_CHEAP was admitted, then its candidates were suppressed on
\* several ticks, and it has been admitted a second time
C33_Witness ==
    /\ AdmittedOfType("DIVERGENCE_UP_CHEAP") = 2
    /\ \E i \in 1..Len(history) :
           /\ i >= 3
           /\ alerts[1].ts < history[i].ts
           /\ history[i].ts < alerts[2].ts
           /\ alerts[2].alert_type = "DIVERGENCE_UP_CHEAP"
           /\ alerts[1].alert_type = "DIVERGENCE_UP_CHEAP"

\* the step is a window rollover: an active window replaces an expired one
Rollover ==
    /\ pc = "top"
    /\ window # NoWindow
    /\ is_expired(window, clock)
    /\ window' # window

\* C34: a window rollover replaces the window and the start price and empties
\* the snapshot history, and leaves the cooldown map, the alert list and the
\* alert and trade counters as they were; and on every tick, whichever window
\* recorded it, a time recorded for a type less than ALERT_COOLDOWN ago
\* keeps every candidate of that type from being admitted.
C34_RolloverKeepsCooldowns ==
    [][/\ Rollover =>
              /\ window'.start > window.start
              /\ start_price' \in env.feed
              /\ history' = << >>
              /\ last_alert_time' = last_alert_time
              /\ alerts' = alerts
              /\ alert_count' = alert_count
              /\ trade_count' = trade_count
       /\ polls' = polls + 1 =>
              \A t \in DOMAIN last_alert_time :
                  clock' - last_alert_time[t] < ALERT_COOLDOWN
                      => \A i \in 1..Len(Admitted) : Admitted[i].alert_type # t]_vars

\* DIVERGENCE_UP_CHEAP was admitted in the previous window, less than
\* ALERT_COOLDOWN before the newest snapshot, which is the third of the new
\* window and had a candidate of that type: no alert was admitted for it
C34_Witness ==
    /\ pc = "sleep"
    /\ Len(history) = 3
    /\ window # NoWindow
    /\ history[1].ts >= window.start
    /\ check_divergence(history[3], start_price) # << >>
    /\ "DIVERGENCE_UP_CHEAP" \in DOMAIN last_alert_time
    /\ last_alert_time["DIVERGENCE_UP_CHEAP"] < window.start
    /\ history[3].ts - last_alert_time["DIVERGENCE_UP_CHEAP"] < ALERT_COOLDOWN
    /\ \A i \in 1..Len(alerts) : alerts[i].ts < window.start

\* the alerts of the price-jump detector admitted so far
AdmittedPriceJumps ==
    Cardinality({i \in 1..Len(alerts) :
                    alerts[i].alert_type \in {"PRICE_JUMP_UP", "PRICE_JUMP_DOWN"}})

\* C35: the number of counter-trade orders attempted never exceeds the number
\* of admitted PRICE_JUMP alerts, and with trading disabled no order is
\* attempted.
C35_OrdersWithinAdmittedJumps ==
    /\ orders <= AdmittedPriceJumps
    /\ ~env.trade => orders = 0

\* C36: every emit call that has taken the bus lock for its subscriber loop
\* gets to its end, returning or raising, with the lock released.
C36_EmitReleasesLock ==
    \A t \in Emitters :
        (tpc[t] = "subs") ~> (lock # t /\ tpc[t] \in {"returned", "raised_stdout"})

\* how many entries of a log are about the fill of block b
EntriesOf(log, b) == Cardinality({i \in 1..Len(log) : log[i].block = b})

\* C37: every fill with a blacklisted counterparty has at most one record in
\* the alert file and at most one emergency_sell call made for it.
C37_OneAlertOneSellPerFill ==
    \A b \in DOMAIN wd_env.chain :
        /\ EntriesOf(wd_alerts, b) <= 1
        /\ EntriesOf(wd_sells, b) <= 1

\* C38: the cursor never decreases, moves by at most MAX_BLOCKS_PER_POLL in a
\* step and never passes the chain head, and the fills of every block from
\* the starting block + 1 up to the cursor have been matched against the
\* blacklist.
C38_CursorCoversEveryBlock ==
    /\ [][/\ last_block' >= last_block
          /\ last_block' - last_block <= MAX_BLOCKS_PER_POLL]_vars
    /\ [](last_block <= wd_head)
    /\ [](\A b \in (StartBlock + 1)..last_block :
              b \in DOMAIN wd_env.chain => b \in wd_checked)

\* the place_limit_sell calls among the venue calls of an emergency_sell
Placements(ops) == {k \in 1..Len(ops) : ops[k].op = "place_limit_sell"}

\* C39: every emergency_sell call makes at most three place_limit_sell calls:
\* the initial one, the retry only after the initial one placed nothing, the
\* panic one only after a placed order was seen matched for less than 0.1; at
\* no point of the call are two of its orders open; and when it returns with
\* success false none of its orders is open.
C39_SellCascade ==
    \A i \in 1..Len(wd_sells) :
        LET c == wd_sells[i]
            ops == c.ops
        IN /\ Cardinality(Placements(ops)) <= 3
           /\ \A k, j \in Placements(ops) : ops[k].n = ops[j].n => k = j
           /\ \A k \in Placements(ops) :
                  /\ ops[k].n = 1 => k = 1
                  /\ ops[k].n = 2 => k = 2 /\ ~ops[1].placed
                  /\ ops[k].n = 3 =>
                         \E j \in 1..(k - 1) :
                             /\ ops[j].op = "get_order_fill"
                             /\ ops[j].filled < 10
                             /\ ops[j].n \in OpenOrders(ops, j - 1, c.size)
           /\ \A k \in 0..Len(ops) : Cardinality(OpenOrders(ops, k, c.size)) <= 1
           /\ (c.kind = "returned" /\ ~c.success) =>
                  OpenOrders(ops, Len(ops), c.size) = {}

\* a call whose initial placement failed, whose retry was placed and matched
\* for 0.05, and whose panic order was placed and not matched: three
\* placements, both orders cancelled, success false
C39_Witness ==
    \E i \in 1..Len(wd_sells) :
        LET c == wd_sells[i]
        IN /\ c.kind = "returned"
           /\ ~c.success
           /\ Cardinality(Placements(c.ops)) = 3
           /\ Len(c.ops) = 7
           /\ c.ops[3] = FillOp(2, 5)
           /\ c.ops[4] = CancelOp(2)
           /\ c.ops[5].placed
           /\ OpenOrders(c.ops, 5, c.size) = {3}
           /\ c.ops[7] = CancelOp(3)
====
